---- MODULE Spec2Model ----
(***************************************************************************)
(* Incremental Intercom -> Supabase synchronisation (backfill, then live   *)
(* tail).  The model follows the sync entry point: its Cursor Store keys,  *)
(* the paginated search / detail client with retries, the extraction of    *)
(* reply rows and the upsert into the replies table.  One invocation is a  *)
(* sequence of steps, one per awaited store write, upstream call or sink   *)
(* write; the process may be killed between any two steps.                 *)
(*                                                                         *)
(* Encoding.  Instants are milliseconds since the epoch (what Date holds   *)
(* and what an ISO string carries); an empty string or null is 0 for the   *)
(* numeric keys and "" for bf_done.  A pagination token is the number of   *)
(* results that precede the page it opens; 0 is "no token".                *)
(***************************************************************************)
EXTENDS Integers, Sequences, FiniteSets, Bags, TLC

\* ------------------------------------------------------------------ bounds
\* The per-run caps are scaled down from the source's values (page 50,
\* 60 conversations, 1500 rows, live 50 / 500) so that several pages and
\* several runs fit in the explored space.  Like 60 against 50, the backfill
\* conversation cap is larger than a page and no multiple of it; like 500
\* against 50, the live cap is a whole number of pages.
SEARCH_PER_PAGE == 2
MAX_CONVERSATIONS_PER_RUN == 3
MAX_ROWS_INSERT_PER_RUN == 4
LIVE_SEARCH_PER_PAGE == 2
LIVE_MAX_CONVERSATIONS_PER_RUN == 2

\* Number of upstream conversations and number of clock advances explored.
NumConvs == 5
MaxTicks == 1

\* Functions examined on their own: the longest scripted sequence of
\* responses to one call and the largest number of parts of a conversation.
MaxScriptLen == 2
MaxParts == 2
\* the tone-scoring job: the replies scored per run, the replies of the table,
\* the rows one candidate query returns (500 in the source), and the budget
\* and its buffer in units of one estimated cost
MAX_TO_SCORE_PER_RUN == 2
NumReplies == 5
CandidateLimit == 3
MONTHLY_BUDGET_USD == 8
BUDGET_BUFFER_USD == 2

\* ------------------------------------------------------- program constants
LIVE_LOOKBACK_MINUTES == 30
LOOKBACK_MINUTES == 45
maxAttempts == 6
MsPerSecond == 1000
MsPerMinute == 60000
MsPerDay == 86400000

\* --------------------------------------------------------------- the clock
\* The first invocation happens at T0 or later; the clock then advances in
\* steps of TickMs.  T0 is Sunday 4 Jan 1970 01:40:00.500 UTC.
FirstSundayMs == 3 * MsPerDay
T0 == FirstSundayMs + 100 * MsPerMinute + 500
TickMs == 20 * MsPerMinute + 500

\* ------------------------------------------------------------------- state
VARIABLES
    now,        \* wall clock, ms
    store,      \* sync_state: key -> value
    replies,    \* the replies table: a bag of rows
    pc,         \* position of the running invocation, "idle" when none runs
    loc,        \* locals of the running invocation
    lastExit,   \* how the previous invocation ended
    hist,       \* observations of the runs (history only, never read by the program)
    call,       \* one function applied on its own: its name, argument and result
    tone,       \* the tone-scoring job: its tables, its state keys and its run
    fill        \* the user-field backfill: the rows' user fields and its run

vars == <<now, store, replies, pc, loc, lastExit, hist, call, tone, fill>>

\* ------------------------------------------------------------ the upstream
\* Message bodies are sequences of tokens: a tag, an entity, a word, or one
\* whitespace character.
BrTags == {"<br>", "<br/>"}
CloseP == {"</p>"}
OtherTags == {"<p>", "<b>", "</b>", "<div>"}
Blank == {" ", "\t"}
Space == {" ", "\t", "\n"}

EntityText(t) ==
    CASE t = "&nbsp;" -> " "
      [] t = "&amp;" -> "&"
      [] t = "&lt;" -> "<"
      [] t = "&gt;" -> ">"
      [] t = "&#39;" -> "'"
      [] t = "&quot;" -> "\""
      [] OTHER -> t

\* .replace(<br>, "\n").replace(</p>, "\n").replace(<any tag>, " ")
StripTags(html) ==
    [k \in 1..Len(html) |->
        IF html[k] \in BrTags \cup CloseP THEN "\n"
        ELSE IF html[k] \in OtherTags THEN " "
        ELSE html[k]]

DecodeEntities(text) == [k \in 1..Len(text) |-> EntityText(text[k])]

\* .replace(/[ \t]+/g, " ")
RECURSIVE CollapseBlanks(_)
CollapseBlanks(text) ==
    IF text = <<>> THEN <<>>
    ELSE IF Head(text) \in Blank
         THEN IF Len(text) > 1 /\ text[2] \in Blank
              THEN CollapseBlanks(Tail(text))
              ELSE <<" ">> \o CollapseBlanks(Tail(text))
         ELSE <<Head(text)>> \o CollapseBlanks(Tail(text))

RECURSIVE DropLeadingSpace(_)
DropLeadingSpace(text) ==
    IF text # <<>> /\ Head(text) \in Space THEN DropLeadingSpace(Tail(text)) ELSE text

\* .replace(/\n\s+/g, "\n")
RECURSIVE CollapseAfterNewline(_)
CollapseAfterNewline(text) ==
    IF text = <<>> THEN <<>>
    ELSE IF Head(text) = "\n"
         THEN <<"\n">> \o CollapseAfterNewline(DropLeadingSpace(Tail(text)))
         ELSE <<Head(text)>> \o CollapseAfterNewline(Tail(text))

RECURSIVE DropTrailingSpace(_)
DropTrailingSpace(text) ==
    IF text # <<>> /\ text[Len(text)] \in Space
    THEN DropTrailingSpace(SubSeq(text, 1, Len(text) - 1))
    ELSE text

Trim(text) == DropTrailingSpace(DropLeadingSpace(text))

htmlToText(html) ==
    IF html = <<>> THEN <<>>
    ELSE Trim(CollapseAfterNewline(CollapseBlanks(DecodeEntities(StripTags(html)))))

\* (mutant) the letter case is left as it is
toLowerCaseIdentity(s) == s

toLowerCase(s) ==
    CASE s = "Admin" -> "admin"
      [] s = "ADMIN" -> "admin"
      [] s = "User" -> "user"
      [] OTHER -> s

\* A raw message is [id, created_at, type, author_id, author_name, body]; id 0,
\* created_at 0, type "", author_id 0 and author_name "" stand for an absent
\* (or falsy) field.
normalizeMessage(obj) ==
    [ part_id        |-> obj.id,
      created_at     |-> obj.created_at,
      created_at_iso |-> obj.created_at * MsPerSecond,
      author_type    |-> IF toLowerCase(obj.type) = "admin" THEN "admin" ELSE "user",
      author_id      |-> obj.author_id,
      author_name    |-> obj.author_name,
      body_text      |-> htmlToText(obj.body) ]

\* (mutant) an element goes before the elements that have its key
RECURSIVE InsertBeforeEqual(_, _)
InsertBeforeEqual(sorted, m) ==
    IF sorted = <<>> THEN <<m>>
    ELSE IF sorted[Len(sorted)].created_at < m.created_at
         THEN Append(sorted, m)
         ELSE Append(InsertBeforeEqual(SubSeq(sorted, 1, Len(sorted) - 1), m),
                     sorted[Len(sorted)])

\* Array.prototype.sort is stable: an element goes after every element whose
\* key is less than or equal to its own.
RECURSIVE InsertByCreatedAt(_, _)
InsertByCreatedAt(sorted, m) ==
    IF sorted = <<>> THEN <<m>>
    ELSE IF sorted[Len(sorted)].created_at <= m.created_at
         THEN Append(sorted, m)
         ELSE Append(InsertByCreatedAt(SubSeq(sorted, 1, Len(sorted) - 1), m),
                     sorted[Len(sorted)])

RECURSIVE SortByCreatedAt(_)
SortByCreatedAt(ms) ==
    IF ms = <<>> THEN <<>>
    ELSE InsertByCreatedAt(SortByCreatedAt(SubSeq(ms, 1, Len(ms) - 1)), ms[Len(ms)])

\* A conversation is [id, source, hasSource, parts, tags, assignee_id].
buildOrderedMessages(conversation) ==
    LET src == IF conversation.hasSource
               THEN <<normalizeMessage(conversation.source)>> ELSE <<>>
        parts == [k \in 1..Len(conversation.parts) |->
                     normalizeMessage(conversation.parts[k])]
    IN SortByCreatedAt(src \o parts)

\* (mutant) the nearest user message is taken whatever its body
RECURSIVE findPreviousUserMessageAnyBody(_, _)
findPreviousUserMessageAnyBody(messages, idx) ==
    IF idx <= 1 THEN <<>>
    ELSE IF messages[idx - 1].author_type = "user"
         THEN messages[idx - 1].body_text
         ELSE findPreviousUserMessageAnyBody(messages, idx - 1)

RECURSIVE findPreviousUserMessage(_, _)
findPreviousUserMessage(messages, idx) ==
    IF idx <= 1 THEN <<>>
    ELSE IF messages[idx - 1].author_type = "user"
            /\ Trim(messages[idx - 1].body_text) # <<>>
         THEN messages[idx - 1].body_text
         ELSE findPreviousUserMessage(messages, idx - 1)

RECURSIVE JoinNames(_)
JoinNames(names) ==
    IF names = <<>> THEN <<>>
    ELSE IF Len(names) = 1 THEN <<names[1]>>
    ELSE <<names[1], ", ">> \o JoinNames(Tail(names))

extractTags(conversation) ==
    JoinNames(SelectSeq(conversation.tags, LAMBDA n : n # ""))

extractAssigneeId(conversation) == conversation.assignee_id

\* The rows one conversation contributes to a page's batch: one per admin
\* message with a non-empty body, in message order.  i is the 0-based index
\* of the source's loop.
partIdOf(msg, convoId, i) ==
    IF msg.part_id # 0
    THEN [kind |-> "id", a |-> msg.part_id, b |-> 0]
    ELSE [kind |-> "source_admin", a |-> convoId,
          b |-> IF msg.created_at # 0 THEN msg.created_at ELSE i]

\* The poller's key, part_id: String(msg.part_id): an absent id gives the
\* text "null" whatever the message and the conversation.
pollerPartIdOf(msg) ==
    IF msg.part_id # 0
    THEN [kind |-> "id", a |-> msg.part_id, b |-> 0]
    ELSE [kind |-> "null", a |-> 0, b |-> 0]

rowOf(messages, k, convoId, tags, assigneeId, pulledAt) ==
    [ pulled_at         |-> pulledAt,
      conversation_id   |-> convoId,
      part_id           |-> partIdOf(messages[k], convoId, k - 1),
      reply_created_at  |-> messages[k].created_at_iso,
      teammate_id       |-> messages[k].author_id,
      teammate_name     |-> messages[k].author_name,
      tags              |-> tags,
      assignee_id       |-> assigneeId,
      user_prev_message |-> findPreviousUserMessage(messages, k),
      agent_reply       |-> messages[k].body_text ]

\* (mutant) the body of an admin message is not looked at
isReplyAnyBody(msg) == msg.author_type = "admin"

\* the two `continue` tests of the row loop
isReply(msg) == msg.author_type = "admin" /\ Trim(msg.body_text) # <<>>

\* (mutant) a reply with no previous user message is left out
RECURSIVE rowsFromPairedOnly(_, _, _, _, _, _)
rowsFromPairedOnly(messages, k, convoId, tags, assigneeId, pulledAt) ==
    IF k > Len(messages) THEN <<>>
    ELSE (IF isReply(messages[k]) /\ findPreviousUserMessage(messages, k) # <<>>
          THEN <<rowOf(messages, k, convoId, tags, assigneeId, pulledAt)>>
          ELSE <<>>)
         \o rowsFromPairedOnly(messages, k + 1, convoId, tags, assigneeId, pulledAt)

RECURSIVE rowsFrom(_, _, _, _, _, _)
rowsFrom(messages, k, convoId, tags, assigneeId, pulledAt) ==
    IF k > Len(messages) THEN <<>>
    ELSE (IF isReply(messages[k])
          THEN <<rowOf(messages, k, convoId, tags, assigneeId, pulledAt)>>
          ELSE <<>>)
         \o rowsFrom(messages, k + 1, convoId, tags, assigneeId, pulledAt)

conversationRows(convoId, full, pulledAt) ==
    rowsFrom(buildOrderedMessages(full), 1, convoId,
             extractTags(full), extractAssigneeId(full), pulledAt)

\* ---- the upstream's content
\* Conversation i was last updated 55 + 10 i minutes after the first Sunday
\* of the epoch (the first four before T0, the others after it); a window
\* ends at or before the instant of its search, so a search sees exactly
\* the conversations updated by then.  Five shapes of conversation alternate:
\* one reply; two replies among a blank admin message and a user message;
\* two replies after a bot's and an authorless message; a source written by
\* an admin and no parts; a source written by an admin without text.
Convs == 1..NumConvs

ConvUpdatedAt(i) == (FirstSundayMs \div MsPerSecond) + 3300 + 600 * i

Msg(id, at, type, body) ==
    [ id |-> id, created_at |-> at, type |-> type,
      author_id |-> IF type = "" THEN 0 ELSE 7,
      author_name |-> IF type = "" THEN "" ELSE "Kim",
      body |-> body ]

ConvParts(i) ==
    LET t == ConvUpdatedAt(i) - 500
    IN CASE i % 5 = 1 ->
              <<Msg(10 * i + 1, t + 10, "admin", <<"<p>", "yes", "</p>">>)>>
         [] i % 5 = 2 ->
              <<Msg(10 * i + 1, t + 10, "admin", <<"<p>", " ", "</p>">>),
                Msg(10 * i + 2, t + 20, "Admin", <<"ok", "&amp;", "<br>">>),
                Msg(10 * i + 3, t + 30, "user", <<>>),
                Msg(10 * i + 4, t + 30, "admin", <<"<b>", "bye", "</b>">>)>>
         [] i % 5 = 3 ->
              <<Msg(10 * i + 1, t + 10, "bot", <<"auto">>),
                Msg(10 * i + 2, t + 20, "", <<"anyone", "?">>),
                Msg(10 * i + 3, t + 30, "ADMIN", <<"one">>),
                Msg(10 * i + 4, t + 40, "admin", <<"two", "&nbsp;">>)>>
         [] OTHER -> <<>>

Detail(i) ==
    [ id |-> i,
      hasSource |-> TRUE,
      source |-> Msg(10 * i, ConvUpdatedAt(i) - 500,
                     IF i % 5 \in {0, 4} THEN "admin" ELSE "user",
                     IF i % 5 = 0 THEN <<"<p>", "&nbsp;", "</p>">>
                                  ELSE <<"<p>", "Hi", "</p>">>),
      parts |-> ConvParts(i),
      tags |-> IF i % 2 = 0 THEN <<"vip", "", "eu">> ELSE <<>>,
      assignee_id |-> IF i % 3 = 0 THEN 0 ELSE 7 ]

\* The conversations a search matches, in the order of the sort it asks for
\* (updated_at ascending; the conversations' numbers follow that order).
RECURSIVE Matching(_, _, _)
Matching(i, startUnix, endUnix) ==
    IF i > NumConvs THEN <<>>
    ELSE (IF ConvUpdatedAt(i) >= startUnix /\ ConvUpdatedAt(i) <= endUnix
          THEN <<i>> ELSE <<>>)
         \o Matching(i + 1, startUnix, endUnix)

\* The body of a successful search response: a page of conversation ids and
\* the token of the next page (0: pages.next absent).
SearchResponse(startUnix, endUnix, perPage, startingAfter) ==
    LET all == Matching(1, startUnix, endUnix)
        from == startingAfter + 1
        to == IF startingAfter + perPage < Len(all)
              THEN startingAfter + perPage ELSE Len(all)
    IN [ conversations |-> SubSeq(all, from, to),
         next |-> IF startingAfter + perPage < Len(all)
                  THEN startingAfter + perPage ELSE 0 ]

\* ---- the client
\* One upstream call is answered by a script: the response to each attempt,
\* [code, parses]; an attempt past the script's end gets its last response.
Resp(code, parses) == [code |-> code, parses |-> parses]

ResponseScripts ==
    { <<Resp(200, TRUE)>>,
      <<Resp(429, TRUE), Resp(503, TRUE), Resp(200, TRUE)>>,
      <<Resp(404, TRUE)>>,
      <<Resp(429, TRUE)>>,
      <<Resp(500, TRUE), Resp(401, TRUE)>>,
      <<Resp(200, FALSE)>> }

isRetryable(code) == code = 429 \/ (code >= 500 /\ code <= 599)

RECURSIVE Pow2(_)
Pow2(n) == IF n = 0 THEN 1 ELSE 2 * Pow2(n - 1)

\* (mutant) the delay is not capped
backoffMsUncapped(attempt) == 500 * Pow2(attempt)

\* Math.min(30000, 500 * Math.pow(2, attempt))
backoffMs(attempt) ==
    IF 500 * Pow2(attempt) < 30000 THEN 500 * Pow2(attempt) ELSE 30000

\* The outcome of one call: a parsed body is returned (ok) or null is (neither
\* ok nor threw) or an exception leaves the function (threw); the number of
\* requests sent and the delays slept, in order.
Outcome(ok, threw, requests, slept) ==
    [ok |-> ok, threw |-> threw, requests |-> requests, slept |-> slept]

\* the response to an attempt
responseAt(script, attempt) ==
    script[IF attempt <= Len(script) THEN attempt ELSE Len(script)]

\* The loop of intercomRequest from a given attempt on.  JSON.parse is inside
\* try / catch: a body that does not parse gives null.
RECURSIVE requestFrom(_, _, _)
requestFrom(script, attempt, slept) ==
    IF attempt > maxAttempts
    THEN Outcome(FALSE, FALSE, attempt - 1, slept)
    ELSE LET res == responseAt(script, attempt)
         IN IF res.code >= 200 /\ res.code < 300
            THEN Outcome(res.parses, FALSE, attempt, slept)
            ELSE IF isRetryable(res.code)
            THEN requestFrom(script, attempt + 1, Append(slept, backoffMs(attempt)))
            ELSE Outcome(FALSE, FALSE, attempt, slept)

intercomRequest(script) == requestFrom(script, 1, <<>>)

\* The poller's intercomRequest: the same loop, but
\* if (res.ok) return text ? JSON.parse(text) : null has no try / catch, so a
\* body that does not parse throws out of the function.
RECURSIVE pollerRequestFrom(_, _, _)
pollerRequestFrom(script, attempt, slept) ==
    IF attempt > maxAttempts
    THEN Outcome(FALSE, FALSE, attempt - 1, slept)
    ELSE LET res == responseAt(script, attempt)
         IN IF res.code >= 200 /\ res.code < 300
            THEN Outcome(res.parses, ~res.parses, attempt, slept)
            ELSE IF isRetryable(res.code)
            THEN pollerRequestFrom(script, attempt + 1,
                                   Append(slept, backoffMs(attempt)))
            ELSE Outcome(FALSE, FALSE, attempt, slept)

pollerIntercomRequest(script) == pollerRequestFrom(script, 1, <<>>)

\* searchResp?.conversations || [] and searchResp?.pages?.next?.starting_after
searchConversationsUpdatedBetween(script, startUnix, endUnix, perPage, startingAfter) ==
    IF intercomRequest(script).ok
    THEN SearchResponse(startUnix, endUnix, perPage, startingAfter)
    ELSE [conversations |-> <<>>, next |-> 0]

\* ---- the sink
PartIds(rows) == {rows[k].part_id : k \in 1..Len(rows)}

\* One INSERT ... ON CONFLICT (part_id) DO UPDATE cannot touch a row twice:
\* a batch that repeats a part_id is rejected as a whole.
batchRejected(rows) == Cardinality(PartIds(rows)) < Len(rows)

\* The table is a bag of rows: nothing in its representation keeps a part_id
\* from occurring twice.
RowsOf(table) == BagToSet(table)

Stored(table, row) == BagIn(row, table)

\* a plain insert of the batch
insertRows(table, rows) == table (+) SetToBag({rows[k] : k \in 1..Len(rows)})

\* (mutant) the batch is inserted without a conflict target
upsertRowsAsInsert(table, rows) == insertRows(table, rows)

\* .upsert(rows, { onConflict: "part_id" }): a row of the batch replaces the
\* row that has its part_id, or is added
upsertRows(table, rows) ==
    LET kept == {r \in RowsOf(table) : r.part_id \notin PartIds(rows)}
    IN insertRows([r \in kept |-> table[r]], rows)

\* ---- dates
toUnix(ms) == ms \div MsPerSecond

\* new Date(now) at 00:00 of the most recent Sunday; 1 Jan 1970 was a Thursday.
\* (mutant) the Sunday after the instant instead of the one before it
mostRecentSundayStartISOUpcoming(t) ==
    LET day == t \div MsPerDay
        weekday == (day + 4) % 7
    IN (day - weekday + 7) * MsPerDay

mostRecentSundayStartISO(t) ==
    LET day == t \div MsPerDay
        weekday == (day + 4) % 7
    IN (day - weekday) * MsPerDay

\* ------------------------------------------------- the poller's window
\* The head of the poller's main(): lastRunIso is the value read from
\* live_last_run_iso (0 when the key has no value) and t the clock.  The
\* value seeded when the key is missing is the one the window is computed
\* from, like a value that was read.
pollerSeed(lastRunIso, t) ==
    IF lastRunIso = 0 THEN t - LOOKBACK_MINUTES * MsPerMinute ELSE lastRunIso

pollerWindow(lastRunIso, t) ==
    LET lastRun == pollerSeed(lastRunIso, t)
        start == lastRun - LOOKBACK_MINUTES * MsPerMinute
    IN [ seeded |-> lastRunIso = 0,
         live_last_run_iso |-> lastRun,
         startUnix |-> toUnix(start),
         endUnix |-> toUnix(t) ]

\* -------------------------------------------------------- the Cursor Store
\* getState returns "" for a key never written.
EmptyStore ==
    [ bf_start_iso |-> 0, bf_end_iso |-> 0, bf_starting_after |-> 0, bf_done |-> "",
      live_last_run_iso |-> 0, live_starting_after |-> 0 ]

BfKeys(st) == <<st.bf_start_iso, st.bf_end_iso, st.bf_starting_after, st.bf_done>>
LiveKeys(st) == <<st.live_last_run_iso, st.live_starting_after>>

\* --------------------------------------------------------------- the locals
\* The locals of the function that is executing; they are gone when it
\* returns.  The page counter and the returned summaries are only logged and
\* are left out.
NoLocals ==
    [ initNow |-> 0,
      startUnix |-> 0, endUnix |-> 0, endMs |-> 0, startingAfter |-> 0,
      processed |-> 0, totalRows |-> 0,
      convos |-> <<>>, next |-> 0, idx |-> 0, rows |-> <<>>,
      answered |-> FALSE, \* the search of the page was answered by the upstream
      seen |-> {},        \* conversations of the page the for loop has visited
      missed |-> {} ]     \* those of them whose detail fetch returned null

NoPage == [phase |-> "", cursor |-> 0, store |-> EmptyStore]

NoHistory ==
    [ handled |-> {},            \* backfill conversations behind a checkpoint
      faults |-> FALSE,          \* an upstream call missed or the sink failed
      exhausted |-> FALSE,       \* the upstream reported the backfill window exhausted
      doneAtStart |-> FALSE,     \* bf_done was true when the invocation started
      lastRunAtStart |-> 0,      \* live_last_run_iso when the invocation started
      liveSeed |-> 0,            \* the value the auto-switch wrote
      firstLiveStart |-> -1,     \* lower bound of the first live search, -1 before it
      page |-> NoPage,           \* the page in flight and the store when it was requested
      sinkError |-> FALSE,       \* the sink reported an error in this invocation
      owed |-> NoPage ]          \* the page of the last sink failure, until its phase
                                 \* searches again

\* The tone-scoring job before its first run: no state key has a value, no
\* reply is scored, no error is recorded.  Timestamps and the clock count
\* in ticks; 0 is an absent value.
NoTone ==
    [ clock |-> NumReplies \div 2 + 1,
      backlog_mode |-> "", boundary_ts |-> 0, cursor_ts |-> 0,
      spent_month |-> -1, spent |-> 0,
      scored |-> {}, errors |-> {},
      pc |-> "idle",
      backlogEnabled |-> FALSE, boundaryTs |-> 0,
      batch |-> <<>>, idx |-> 0, lastProcessedTs |-> 0 ]

\* The user-field backfill with an empty table and no run.
NoFill ==
    [ rows |-> <<>>,             \* the replies table: the rows' user fields
      pc |-> "idle", loops |-> 0, unique |-> <<>>, idx |-> 0,
      before |-> 0,              \* rows selected by the previous loop iteration's query
      exit |-> "" ]              \* how the last run ended

\* No function is being examined on its own.
NoCall == [fn |-> "", arg |-> <<>>, ret |-> <<>>, returned |-> FALSE]

Init ==
    /\ call = NoCall
    /\ tone = NoTone
    /\ fill = NoFill
    /\ now = T0
    /\ store = EmptyStore
    /\ replies = EmptyBag
    /\ pc = "idle"
    /\ loc = NoLocals
    /\ lastExit = "none"
    /\ hist = NoHistory

\* process exit: the locals are gone
Exit(how) ==
    /\ pc' = "idle"
    /\ loc' = NoLocals
    /\ lastExit' = how

\* ------------------------------------------------------------ environment
\* The clock is observed only where the program reads it (and by the next
\* invocation's start), so it advances there.
Tick ==
    /\ pc \in {"idle", "auto_switch", "live_start", "bf_conv", "live_conv"}
    /\ now + TickMs <= T0 + MaxTicks * TickMs
    /\ now' = now + TickMs
    /\ UNCHANGED <<call, tone, fill, store, replies, pc, loc, lastExit, hist>>

\* The process is terminated between two steps.
Kill ==
    /\ pc # "idle"
    /\ Exit("killed")
    /\ UNCHANGED <<call, tone, fill, now, store, replies, hist>>

\* main() is entered.
Start ==
    /\ pc = "idle"
    /\ pc' = "bf_init"
    /\ loc' = NoLocals
    /\ lastExit' = "none"
    /\ hist' = [hist EXCEPT !.doneAtStart = (store.bf_done = "true"),
                            !.lastRunAtStart = store.live_last_run_iso,
                            !.sinkError = FALSE,
                            !.page = NoPage]
    /\ UNCHANGED <<call, tone, fill, now, store, replies>>

\* ---------------------------------------------------------------- backfill
\* (mutant) the window is initialised again whenever the cursor is empty
needsBackfillInitOnEmptyCursor(st) ==
    ~(st.bf_start_iso # 0 /\ st.bf_end_iso # 0 /\ st.bf_starting_after # 0)

needsBackfillInit(st) == ~(st.bf_start_iso # 0 /\ st.bf_end_iso # 0)

\* initBackfillSundayToNowIfNeeded, up to its first write
BfInit ==
    /\ pc = "bf_init"
    /\ IF needsBackfillInit(store)
       THEN /\ store' = [store EXCEPT !.bf_start_iso = mostRecentSundayStartISO(now)]
            /\ loc' = [loc EXCEPT !.initNow = now]
            /\ pc' = "bf_init_end"
       ELSE /\ pc' = "bf_read"
            /\ UNCHANGED <<store, loc>>
    /\ UNCHANGED <<call, tone, fill, now, replies, lastExit, hist>>

BfInitEnd ==
    /\ pc = "bf_init_end"
    /\ store' = [store EXCEPT !.bf_end_iso = loc.initNow]
    /\ pc' = "bf_init_cursor"
    /\ UNCHANGED <<call, tone, fill, now, replies, loc, lastExit, hist>>

BfInitCursor ==
    /\ pc = "bf_init_cursor"
    /\ store' = [store EXCEPT !.bf_starting_after = 0]
    /\ pc' = "bf_init_done"
    /\ UNCHANGED <<call, tone, fill, now, replies, loc, lastExit, hist>>

BfInitDone ==
    /\ pc = "bf_init_done"
    /\ store' = [store EXCEPT !.bf_done = "false"]
    /\ loc' = NoLocals
    /\ pc' = "bf_read"
    /\ UNCHANGED <<call, tone, fill, now, replies, lastExit, hist>>

\* (mutant) the flag is compared with another word than the one written
bfIsDoneOtherWord(st) == toLowerCase(st.bf_done) = "done"

bfIsDone(st) == toLowerCase(st.bf_done) = "true"

\* runBackfillOnce from the done check to the loop
BfRead ==
    /\ pc = "bf_read"
    /\ IF bfIsDone(store)
       THEN /\ loc' = NoLocals
            /\ pc' = "auto_switch"
            /\ UNCHANGED lastExit
       ELSE IF store.bf_start_iso = 0 \/ store.bf_end_iso = 0
       THEN /\ Exit("error")
       ELSE /\ loc' = [loc EXCEPT !.startUnix = toUnix(store.bf_start_iso),
                                  !.endUnix = toUnix(store.bf_end_iso),
                                  !.startingAfter = store.bf_starting_after]
            /\ pc' = "bf_loop"
            /\ UNCHANGED lastExit
    /\ UNCHANGED <<call, tone, fill, now, store, replies, hist>>

\* The conversations of the backfill window, in search order.
BfWindowList(st) == Matching(1, toUnix(st.bf_start_iso), toUnix(st.bf_end_iso))

\* (mutant) the sink's error is dropped
sinkErrorSwallowed(error) == FALSE

\* if (error) throw error
sinkThrows(error) == error

\* (mutant) a failed detail fetch ends the for loop
afterDetailMissBreak(l, c) ==
    [l EXCEPT !.idx = Len(l.convos) + 1, !.seen = @ \cup {c}, !.missed = @ \cup {c}]

\* (mutant) a failed detail fetch counts as a processed conversation
afterDetailMissCounted(l, c) ==
    [l EXCEPT !.idx = @ + 1, !.processed = @ + 1,
              !.seen = @ \cup {c}, !.missed = @ \cup {c}]

\* if (!full) continue
afterDetailMiss(l, c) ==
    [l EXCEPT !.idx = @ + 1, !.seen = @ \cup {c}, !.missed = @ \cup {c}]

\* (mutant) the guard of the upsert is inverted
bfAfterPageInverted(rows) == IF rows = <<>> THEN "bf_upsert" ELSE "bf_cursor"

\* if (rows.length) { insertReplies(rows) }
bfAfterPage(rows) == IF rows # <<>> THEN "bf_upsert" ELSE "bf_cursor"

\* (mutant) the for loop ends only with the page
bfForEndsWithPage(l) == l.idx > Len(l.convos)

\* the guards that end the for loop over a page
bfForEnds(l) ==
    \/ l.idx > Len(l.convos)
    \/ l.processed >= MAX_CONVERSATIONS_PER_RUN
    \/ l.totalRows + Len(l.rows) >= MAX_ROWS_INSERT_PER_RUN

\* the while guard, one search and the test of the page
BfSearch ==
    /\ pc = "bf_loop"
    /\ IF ~(loc.processed < MAX_CONVERSATIONS_PER_RUN
            /\ loc.totalRows < MAX_ROWS_INSERT_PER_RUN)
       THEN /\ pc' = "auto_switch"
            /\ loc' = NoLocals
            /\ UNCHANGED hist
       ELSE \E script \in ResponseScripts :
            LET answered == intercomRequest(script).ok
                resp == searchConversationsUpdatedBetween(script, loc.startUnix,
                            loc.endUnix, SEARCH_PER_PAGE, loc.startingAfter)
                asked == [phase |-> "bf", cursor |-> loc.startingAfter, store |-> store]
            IN /\ loc' = [loc EXCEPT !.convos = resp.conversations,
                                     !.next = resp.next,
                                     !.answered = answered,
                                     !.idx = 1, !.rows = <<>>, !.seen = {},
                                     !.missed = {}]
               /\ pc' = IF resp.conversations = <<>> THEN "bf_empty_done" ELSE "bf_conv"
               /\ hist' = [hist EXCEPT
                     !.faults = @ \/ ~answered,
                     !.exhausted = @ \/ (answered /\ resp.next = 0),
                     !.page = asked,
                     !.owed = IF hist.owed.phase = "bf" THEN NoPage ELSE @]
    /\ UNCHANGED <<call, tone, fill, now, store, replies, lastExit>>

\* empty page: setState(BF_DONE_KEY, "true")
BfEmptyDone ==
    /\ pc = "bf_empty_done"
    /\ store' = [store EXCEPT !.bf_done = "true"]
    /\ pc' = "bf_empty_cursor"
    /\ UNCHANGED <<call, tone, fill, now, replies, loc, lastExit, hist>>

\* empty page: setState(BF_CURSOR_KEY, ""), return { done: true }
BfEmptyCursor ==
    /\ pc = "bf_empty_cursor"
    /\ store' = [store EXCEPT !.bf_starting_after = 0]
    /\ loc' = NoLocals
    /\ pc' = "auto_switch"
    /\ UNCHANGED <<call, tone, fill, now, replies, lastExit, hist>>

\* one iteration of the for loop: the detail call and the rows of the conversation
BfConversation ==
    /\ pc = "bf_conv"
    /\ \E script \in ResponseScripts :
         LET c == loc.convos[loc.idx]
             full == intercomRequest(script).ok
             l1 == IF full
                   THEN [loc EXCEPT !.rows = @ \o conversationRows(c, Detail(c), now),
                                    !.processed = @ + 1,
                                    !.idx = @ + 1, !.seen = @ \cup {c}]
                   ELSE afterDetailMiss(loc, c)
         IN /\ loc' = l1
            /\ pc' = IF bfForEnds(l1) THEN bfAfterPage(l1.rows) ELSE "bf_conv"
            /\ hist' = [hist EXCEPT !.faults = @ \/ ~full]
    /\ UNCHANGED <<call, tone, fill, now, store, replies, lastExit>>

\* insertReplies(rows); totalRows += upserted
BfUpsert ==
    /\ pc = "bf_upsert"
    /\ \E failure \in BOOLEAN :
         LET error == failure \/ batchRejected(loc.rows)
         IN IF error
            THEN /\ hist' = [hist EXCEPT !.faults = TRUE, !.sinkError = TRUE,
                                         !.owed = hist.page]
                 /\ IF sinkThrows(error)
                    THEN Exit("error")
                    ELSE /\ pc' = "bf_cursor"
                         /\ UNCHANGED <<loc, lastExit>>
                 /\ UNCHANGED replies
            ELSE /\ replies' = upsertRows(replies, loc.rows)
                 /\ loc' = [loc EXCEPT !.totalRows = @ + Len(loc.rows)]
                 /\ pc' = "bf_cursor"
                 /\ UNCHANGED <<lastExit, hist>>
    /\ UNCHANGED <<call, tone, fill, now, store>>

\* (mutant) the local cursor is not moved to the page's next cursor
advanceCursorStuck(l) == l

\* (mutant) the local cursor goes back to the first page
advanceCursorRewound(l) == [l EXCEPT !.startingAfter = 0]

\* startingAfter = nextStartingAfter
advanceCursor(l) == [l EXCEPT !.startingAfter = l.next]

\* pages++; startingAfter = nextStartingAfter; setState(BF_CURSOR_KEY, ...)
BfCheckpoint ==
    /\ pc = "bf_cursor"
    /\ store' = [store EXCEPT !.bf_starting_after = loc.next]
    /\ loc' = advanceCursor(loc)
    /\ pc' = IF loc.next = 0 THEN "bf_final_done" ELSE "bf_loop"
    /\ hist' = [hist EXCEPT !.handled = @ \cup loc.seen]
    /\ UNCHANGED <<call, tone, fill, now, replies, lastExit>>

\* last page: setState(BF_DONE_KEY, "true")
BfFinalDone ==
    /\ pc = "bf_final_done"
    /\ store' = [store EXCEPT !.bf_done = "true"]
    /\ pc' = "bf_final_cursor"
    /\ UNCHANGED <<call, tone, fill, now, replies, loc, lastExit, hist>>

\* last page: setState(BF_CURSOR_KEY, ""), return { done: true }
BfFinalCursor ==
    /\ pc = "bf_final_cursor"
    /\ store' = [store EXCEPT !.bf_starting_after = 0]
    /\ loc' = NoLocals
    /\ pc' = "auto_switch"
    /\ UNCHANGED <<call, tone, fill, now, replies, lastExit, hist>>

\* ------------------------------------------------------------- auto-switch
\* (mutant) the live state is seeded with the time of the switch
initialLiveStartNow(bfEndIso, t) == t

\* const liveStart = bfEndIso ? new Date(bfEndIso) : new Date()
initialLiveStart(bfEndIso, t) == IF bfEndIso # 0 THEN bfEndIso ELSE t

\* (mutant) the live state is never taken as initialised
alreadyLiveNever(lastRunIso) == FALSE

\* const alreadyLive = !!(await getState(LIVE_LAST_RUN_KEY))
alreadyLive(lastRunIso) == lastRunIso # 0

\* autoSwitchToLiveIfBackfillDone, up to its first write
AutoSwitch ==
    /\ pc = "auto_switch"
    /\ IF ~bfIsDone(store) \/ alreadyLive(store.live_last_run_iso)
       THEN /\ pc' = "live_start"
            /\ UNCHANGED <<store, hist>>
       ELSE LET liveStart == initialLiveStart(store.bf_end_iso, now)
            IN /\ store' = [store EXCEPT !.live_last_run_iso = liveStart]
               /\ hist' = [hist EXCEPT !.liveSeed = liveStart]
               /\ pc' = "auto_cursor"
    /\ UNCHANGED <<call, tone, fill, now, replies, loc, lastExit>>

AutoSwitchCursor ==
    /\ pc = "auto_cursor"
    /\ store' = [store EXCEPT !.live_starting_after = 0]
    /\ pc' = "live_start"
    /\ UNCHANGED <<call, tone, fill, now, replies, loc, lastExit, hist>>

\* -------------------------------------------------------------------- live
\* (mutant) the lookback is taken in seconds instead of minutes
liveWindowStartSeconds(lastRun) == lastRun - LIVE_LOOKBACK_MINUTES * MsPerSecond

\* new Date(lastRun.getTime() - LIVE_LOOKBACK_MINUTES * 60 * 1000)
liveWindowStart(lastRun) == lastRun - LIVE_LOOKBACK_MINUTES * MsPerMinute

\* (mutant) the clock is read again when live_last_run_iso is written
consumedEndAtWrite(l, t) == t

\* end.toISOString(): the end the run fixed before its first search
consumedEnd(l, t) == l.endMs

liveAfterPage(rows) == IF rows # <<>> THEN "live_upsert" ELSE "live_cursor"

liveForEnds(l) ==
    \/ l.idx > Len(l.convos)
    \/ l.processed >= LIVE_MAX_CONVERSATIONS_PER_RUN

\* (mutant) the live pass does not wait for the auto-switch
liveNotReadyNever(lastRunIso) == FALSE

\* if (!lastRunIso) return { ran: false }
liveNotReady(lastRunIso) == lastRunIso = 0

\* runLiveOnce up to its loop
LiveStart ==
    /\ pc = "live_start"
    /\ IF liveNotReady(store.live_last_run_iso)
       THEN /\ pc' = "done"
            /\ UNCHANGED <<loc, hist>>
       ELSE LET startUnix == toUnix(liveWindowStart(store.live_last_run_iso))
            IN /\ loc' = [loc EXCEPT !.startUnix = startUnix,
                                     !.endUnix = toUnix(now), !.endMs = now,
                                     !.startingAfter = store.live_starting_after,
                                     !.processed = 0, !.totalRows = 0]
               /\ hist' = [hist EXCEPT
                     !.firstLiveStart = IF @ = -1 THEN startUnix ELSE @]
               /\ pc' = "live_loop"
    /\ UNCHANGED <<call, tone, fill, now, store, replies, lastExit>>

LiveSearch ==
    /\ pc = "live_loop"
    /\ IF ~(loc.processed < LIVE_MAX_CONVERSATIONS_PER_RUN)
       THEN /\ pc' = "done"
            /\ loc' = NoLocals
            /\ UNCHANGED hist
       ELSE \E script \in ResponseScripts :
            LET answered == intercomRequest(script).ok
                resp == searchConversationsUpdatedBetween(script, loc.startUnix,
                            loc.endUnix, LIVE_SEARCH_PER_PAGE, loc.startingAfter)
                asked == [phase |-> "live", cursor |-> loc.startingAfter, store |-> store]
            IN /\ loc' = [loc EXCEPT !.convos = resp.conversations,
                                     !.next = resp.next,
                                     !.answered = answered,
                                     !.idx = 1, !.rows = <<>>, !.seen = {},
                                     !.missed = {}]
               /\ pc' = IF resp.conversations = <<>> THEN "live_empty_last" ELSE "live_conv"
               /\ hist' = [hist EXCEPT
                     !.faults = @ \/ ~answered,
                     !.page = asked,
                     !.owed = IF hist.owed.phase = "live" THEN NoPage ELSE @]
    /\ UNCHANGED <<call, tone, fill, now, store, replies, lastExit>>

\* empty page: setState(LIVE_LAST_RUN_KEY, end.toISOString())
LiveEmptyLastRun ==
    /\ pc = "live_empty_last"
    /\ store' = [store EXCEPT !.live_last_run_iso = consumedEnd(loc, now)]
    /\ pc' = "live_empty_cursor"
    /\ UNCHANGED <<call, tone, fill, now, replies, loc, lastExit, hist>>

\* empty page: setState(LIVE_CURSOR_KEY, ""), return
LiveEmptyCursor ==
    /\ pc = "live_empty_cursor"
    /\ store' = [store EXCEPT !.live_starting_after = 0]
    /\ loc' = NoLocals
    /\ pc' = "done"
    /\ UNCHANGED <<call, tone, fill, now, replies, lastExit, hist>>

LiveConversation ==
    /\ pc = "live_conv"
    /\ \E script \in ResponseScripts :
         LET c == loc.convos[loc.idx]
             full == intercomRequest(script).ok
             l1 == IF full
                   THEN [loc EXCEPT !.rows = @ \o conversationRows(c, Detail(c), now),
                                    !.processed = @ + 1,
                                    !.idx = @ + 1, !.seen = @ \cup {c}]
                   ELSE afterDetailMiss(loc, c)
         IN /\ loc' = l1
            /\ pc' = IF liveForEnds(l1) THEN liveAfterPage(l1.rows) ELSE "live_conv"
            /\ hist' = [hist EXCEPT !.faults = @ \/ ~full]
    /\ UNCHANGED <<call, tone, fill, now, store, replies, lastExit>>

LiveUpsert ==
    /\ pc = "live_upsert"
    /\ \E failure \in BOOLEAN :
         LET error == failure \/ batchRejected(loc.rows)
         IN IF error
            THEN /\ hist' = [hist EXCEPT !.faults = TRUE, !.sinkError = TRUE,
                                         !.owed = hist.page]
                 /\ IF sinkThrows(error)
                    THEN Exit("error")
                    ELSE /\ pc' = "live_cursor"
                         /\ UNCHANGED <<loc, lastExit>>
                 /\ UNCHANGED replies
            ELSE /\ replies' = upsertRows(replies, loc.rows)
                 /\ loc' = [loc EXCEPT !.totalRows = @ + Len(loc.rows)]
                 /\ pc' = "live_cursor"
                 /\ UNCHANGED <<lastExit, hist>>
    /\ UNCHANGED <<call, tone, fill, now, store>>

\* pages++; startingAfter = nextStartingAfter; setState(LIVE_CURSOR_KEY, ...)
LiveCheckpoint ==
    /\ pc = "live_cursor"
    /\ store' = [store EXCEPT !.live_starting_after = loc.next]
    /\ loc' = advanceCursor(loc)
    /\ pc' = IF loc.next = 0 THEN "live_final_last" ELSE "live_loop"
    /\ UNCHANGED <<call, tone, fill, now, replies, lastExit, hist>>

\* last page: setState(LIVE_LAST_RUN_KEY, end.toISOString())
LiveFinalLastRun ==
    /\ pc = "live_final_last"
    /\ store' = [store EXCEPT !.live_last_run_iso = consumedEnd(loc, now)]
    /\ pc' = "live_final_cursor"
    /\ UNCHANGED <<call, tone, fill, now, replies, loc, lastExit, hist>>

\* last page: setState(LIVE_CURSOR_KEY, ""), break
LiveFinalCursor ==
    /\ pc = "live_final_cursor"
    /\ store' = [store EXCEPT !.live_starting_after = 0]
    /\ loc' = NoLocals
    /\ pc' = "done"
    /\ UNCHANGED <<call, tone, fill, now, replies, lastExit, hist>>

\* main() returns: exit code 0
Finish ==
    /\ pc = "done"
    /\ Exit("ok")
    /\ UNCHANGED <<call, tone, fill, now, store, replies, hist>>

\* ----------------------------------------------------------- specification
Next ==
    \/ Tick \/ Kill \/ Start
    \/ BfInit \/ BfInitEnd \/ BfInitCursor \/ BfInitDone \/ BfRead
    \/ BfSearch \/ BfEmptyDone \/ BfEmptyCursor
    \/ BfConversation \/ BfUpsert \/ BfCheckpoint \/ BfFinalDone \/ BfFinalCursor
    \/ AutoSwitch \/ AutoSwitchCursor
    \/ LiveStart \/ LiveSearch \/ LiveEmptyLastRun \/ LiveEmptyCursor
    \/ LiveConversation \/ LiveUpsert \/ LiveCheckpoint
    \/ LiveFinalLastRun \/ LiveFinalCursor
    \/ Finish

Spec == Init /\ [][Next]_vars

\* Invocations left to run to their end: each awaited call returns and the
\* single thread of main() takes its next step.  The environment starts
\* invocations and advances the clock as it likes, and does not terminate
\* the process (an invocation that is killed has ended).
ProgramStep ==
    \/ BfInit \/ BfInitEnd \/ BfInitCursor \/ BfInitDone \/ BfRead
    \/ BfSearch \/ BfEmptyDone \/ BfEmptyCursor
    \/ BfConversation \/ BfUpsert \/ BfCheckpoint \/ BfFinalDone \/ BfFinalCursor
    \/ AutoSwitch \/ AutoSwitchCursor
    \/ LiveStart \/ LiveSearch \/ LiveEmptyLastRun \/ LiveEmptyCursor
    \/ LiveConversation \/ LiveUpsert \/ LiveCheckpoint
    \/ LiveFinalLastRun \/ LiveFinalCursor
    \/ Finish

RunNext == Tick \/ Start \/ ProgramStep

FairSpec == Init /\ [][RunNext]_vars /\ WF_vars(ProgramStep)

\* ------------------------------------------------- functions on their own
\* A function of the program applied once to an input drawn from a bounded
\* set: the input is chosen initially, one step applies the function.
SeqsUpTo(S, n) == UNION {[1..k -> S] : k \in 0..n}

\* Statuses on both sides of every boundary the client tests, and for the
\* 2xx ones a body that parses or does not.
StatusCodes == {199, 200, 299, 300, 404, 429, 499, 500, 599, 600}

Responses ==
    {Resp(code, TRUE) : code \in StatusCodes} \cup {Resp(code, FALSE) : code \in {200, 299}}

Scripts == SeqsUpTo(Responses, MaxScriptLen) \ {<<>>}

\* created_at of a message; 0 is an absent created_at
Stamps == {0, 5, 9}

\* author.type of a message; "" is an absent author or an absent type
AuthorTypes ==
    {"admin", "Admin", "ADMIN", "user", "User", "bot", "administrator", " admin", ""}

\* A conversation whose messages are numbered in the order the upstream
\* lists them: the source is 10, the k-th part is 10 + k.
ConversationOf(hasSource, source, parts) ==
    [ id |-> 1, hasSource |-> hasSource, source |-> source, parts |-> parts,
      tags |-> <<>>, assignee_id |-> 0 ]

\* conversations that differ in their messages' timestamps
StampedConversations ==
    { ConversationOf(hasSource, Msg(10, at, "user", <<"Hi">>),
                     [k \in 1..Len(ats) |-> Msg(10 + k, ats[k], "user", <<"more">>)]) :
        hasSource \in BOOLEAN, at \in Stamps, ats \in SeqsUpTo(Stamps, MaxParts) }

\* conversations that differ in their messages' author types
AuthoredConversations ==
    { ConversationOf(TRUE, Msg(10, 5, type, <<"Hi">>),
                     [k \in 1..Len(types) |-> Msg(10 + k, 5 + k, types[k], <<"ok">>)]) :
        type \in AuthorTypes, types \in SeqsUpTo(AuthorTypes, MaxParts) }

\* bodies without text (absent, a non-breaking space) and with text
Bodies == {<<>>, <<"&nbsp;">>, <<"A">>, <<"<p>", "B", "</p>">>}

\* conversations of up to MaxParts + 2 messages that differ in who wrote each
\* message and in what it says
RepliedConversations ==
    LET Message == {"admin", "user"} \X Bodies
    IN { ConversationOf(TRUE, Msg(10, 5, first[1], first[2]),
                        [k \in 1..Len(rest) |->
                            Msg(10 + k, 5 + k, rest[k][1], rest[k][2])]) :
           first \in Message, rest \in SeqsUpTo(Message, MaxParts + 1) }

RawMessages ==
    {Msg(3, at, type, body) :
        at \in Stamps, type \in AuthorTypes, body \in {<<>>, <<"<p>", "ok", "</p>">>}}

\* conversations of operator messages with text of which any may have no
\* upstream id (id 0) and no or an equal timestamp
IdlessConversations ==
    LET Message == BOOLEAN \X {0, 5}
        M(id, m) == Msg(IF m[1] THEN id ELSE 0, m[2], "admin", <<"ok">>)
    IN { ConversationOf(TRUE, M(10, first),
                        [k \in 1..Len(rest) |-> M(10 + k, rest[k])]) :
           first \in Message, rest \in SeqsUpTo(Message, MaxParts) }

\* what the poller finds when it starts: no live state, or the end of an
\* earlier run, and the clock
PollerStarts ==
    [ lastRunIso : {0, T0 - TickMs, T0}, now : {T0, T0 + TickMs} ]

Calls ==
    {[fn |-> fn, arg |-> script, ret |-> <<>>, returned |-> FALSE] :
        fn \in {"intercomRequest", "pollerIntercomRequest"}, script \in Scripts}
    \cup {[fn |-> "buildOrderedMessages", arg |-> c, ret |-> <<>>, returned |-> FALSE] :
              c \in StampedConversations}
    \cup {[fn |-> "conversationRows", arg |-> c, ret |-> <<>>, returned |-> FALSE] :
              c \in AuthoredConversations \cup RepliedConversations}
    \cup {[fn |-> "normalizeMessage", arg |-> m, ret |-> <<>>, returned |-> FALSE] :
              m \in RawMessages}
    \cup {[fn |-> "pollerWindow", arg |-> a, ret |-> <<>>, returned |-> FALSE] :
              a \in PollerStarts}
    \cup {[fn |-> "partIdOf", arg |-> c, ret |-> <<>>, returned |-> FALSE] :
              c \in IdlessConversations}

FunctionInit ==
    /\ call \in Calls
    /\ tone = NoTone
    /\ fill = NoFill
    /\ now = T0
    /\ store = EmptyStore
    /\ replies = EmptyBag
    /\ pc = "idle"
    /\ loc = NoLocals
    /\ lastExit = "none"
    /\ hist = NoHistory

Returns(fn, value) ==
    /\ call.fn = fn
    /\ ~call.returned
    /\ call' = [call EXCEPT !.ret = value, !.returned = TRUE]
    /\ UNCHANGED <<now, store, replies, pc, loc, lastExit, hist, tone, fill>>

ApplyIntercomRequest == Returns("intercomRequest", intercomRequest(call.arg))

ApplyPollerIntercomRequest ==
    Returns("pollerIntercomRequest", pollerIntercomRequest(call.arg))

ApplyBuildOrderedMessages ==
    Returns("buildOrderedMessages", buildOrderedMessages(call.arg))

ApplyConversationRows ==
    Returns("conversationRows", conversationRows(call.arg.id, call.arg, now))

ApplyNormalizeMessage == Returns("normalizeMessage", normalizeMessage(call.arg))

ApplyPollerWindow ==
    Returns("pollerWindow", pollerWindow(call.arg.lastRunIso, call.arg.now))

\* the keys of the rows of one conversation, as the sync entry point and as
\* the poller derive them
ApplyPartIdOf ==
    LET rows == conversationRows(call.arg.id, call.arg, now)
        msgs == SelectSeq(buildOrderedMessages(call.arg), isReply)
    IN Returns("partIdOf",
               [ sync |-> [k \in 1..Len(rows) |-> rows[k].part_id],
                 poller |-> [k \in 1..Len(msgs) |-> pollerPartIdOf(msgs[k])] ])

FunctionNext ==
    \/ ApplyIntercomRequest \/ ApplyPollerIntercomRequest
    \/ ApplyBuildOrderedMessages \/ ApplyConversationRows \/ ApplyNormalizeMessage
    \/ ApplyPollerWindow \/ ApplyPartIdOf

FunctionSpec == FunctionInit /\ [][FunctionNext]_vars

\* ----------------------------------------------------- the tone-scoring job
\* The replies table as the job reads it: reply k was created at tick
\* k \div 2 + 1 (replies 2 and 3 share a timestamp, 4 and 5 the next one) and
\* is in the table from that tick on; every fifth reply has no text to
\* score; the estimated cost of a reply is one or two units.  Rows with one
\* reply_created_at come back in the order of their part_id.
ReplyIds == 1..NumReplies

replyCreatedAt(k) == k \div 2 + 1

\* the filter of fetchBatch: a reply that is not blank and no internal note
isScoreable(k) == k % 5 # 0

estimateCostUsd(k) == 1 + ((k + 1) % 2)

\* the month of a tick: NumReplies \div 2 + 2 ticks make a calendar month
getMonthKeyUTC(t) == t \div (NumReplies \div 2 + 2)

RECURSIVE Ascending(_)
Ascending(S) ==
    IF S = {} THEN <<>>
    ELSE LET m == CHOOSE x \in S : \A y \in S : x <= y
         IN <<m>> \o Ascending(S \ {m})

FirstOf(seq, n) == SubSeq(seq, 1, IF Len(seq) < n THEN Len(seq) ELSE n)

\* fetchBatch: the first rows after the cursor and up to the boundary, less
\* the scored ones and the ones the filter drops, cut to the limit
fetchBatch(st, cursorTs, boundaryTs, limit) ==
    LET matching == {k \in ReplyIds :
                        /\ replyCreatedAt(k) <= st.clock
                        /\ cursorTs # 0 => replyCreatedAt(k) > cursorTs
                        /\ boundaryTs # 0 => replyCreatedAt(k) <= boundaryTs}
        candidates == FirstOf(Ascending(matching), CandidateLimit)
        unscored == SelectSeq(candidates, LAMBDA k : k \notin st.scored)
        filtered == SelectSeq(unscored, isScoreable)
    IN FirstOf(filtered, limit)

\* getSpendState, as one step: a stored month other than the current one
\* is replaced and the spend set to 0
getSpendState(st) ==
    IF st.spent_month # getMonthKeyUTC(st.clock)
    THEN [st EXCEPT !.spent_month = getMonthKeyUTC(st.clock), !.spent = 0]
    ELSE st

\* (mutant) a reply that takes the spend to the limit exactly is scored
wouldExceedBudgetStrictly(spent, estCost) == spent + estCost > (MONTHLY_BUDGET_USD - BUDGET_BUFFER_USD)

\* if (spendNow.spent + estCost >= MONTHLY_BUDGET_USD - BUDGET_BUFFER_USD) break
wouldExceedBudget(spent, estCost) == spent + estCost >= (MONTHLY_BUDGET_USD - BUDGET_BUFFER_USD)

\* if (v === "") return BACKLOG_MODE_DEFAULT; return lower(v) === "true"
isBacklogEnabled(st) ==
    IF st.backlog_mode = "" THEN TRUE ELSE toLowerCase(st.backlog_mode) = "true"

\* main() returns or the process ends: the locals are gone
ToneExit(st) ==
    [st EXCEPT !.pc = "idle", !.backlogEnabled = FALSE, !.boundaryTs = 0,
               !.batch = <<>>, !.idx = 0, !.lastProcessedTs = 0]

\* the clock advances, and with it the replies of the table and the month
ToneTick ==
    /\ tone.clock < NoTone.clock + MaxTicks
    /\ tone' = [tone EXCEPT !.clock = @ + 1]
    /\ UNCHANGED <<now, store, replies, pc, loc, lastExit, hist, call, fill>>

ToneKill ==
    /\ tone.pc # "idle"
    /\ tone' = ToneExit(tone)
    /\ UNCHANGED <<now, store, replies, pc, loc, lastExit, hist, call, fill>>

ToneStart ==
    /\ tone.pc = "idle"
    /\ tone' = [tone EXCEPT !.pc = "spend_month"]
    /\ UNCHANGED <<now, store, replies, pc, loc, lastExit, hist, call, fill>>

\* getSpendState of main's head, first write: setState(SPENT_MONTH_KEY, monthKey)
ToneSpendMonth ==
    /\ tone.pc = "spend_month"
    /\ tone' = IF tone.spent_month # getMonthKeyUTC(tone.clock)
               THEN [tone EXCEPT !.spent_month = getMonthKeyUTC(tone.clock),
                                 !.pc = "spend_reset"]
               ELSE [tone EXCEPT !.pc = "budget"]
    /\ UNCHANGED <<now, store, replies, pc, loc, lastExit, hist, call, fill>>

\* second write: setState(SPENT_USD_KEY, "0")
ToneSpendReset ==
    /\ tone.pc = "spend_reset"
    /\ tone' = [tone EXCEPT !.spent = 0, !.pc = "budget"]
    /\ UNCHANGED <<now, store, replies, pc, loc, lastExit, hist, call, fill>>

\* if (spendState.spent >= MONTHLY_BUDGET_USD - BUDGET_BUFFER_USD) return
ToneBudget ==
    /\ tone.pc = "budget"
    /\ tone' = IF tone.spent >= (MONTHLY_BUDGET_USD - BUDGET_BUFFER_USD)
               THEN ToneExit(tone)
               ELSE [tone EXCEPT !.pc = "boundary"]
    /\ UNCHANGED <<now, store, replies, pc, loc, lastExit, hist, call, fill>>

\* isBacklogEnabled and ensureBacklogBoundaryIfMissing
ToneBoundary ==
    /\ tone.pc = "boundary"
    /\ LET enabled == isBacklogEnabled(tone)
           boundary == IF tone.boundary_ts # 0 THEN tone.boundary_ts ELSE tone.clock
       IN tone' = [tone EXCEPT
                     !.backlogEnabled = enabled,
                     !.boundary_ts = IF enabled THEN boundary ELSE @,
                     !.boundaryTs = IF enabled THEN boundary ELSE 0,
                     !.pc = "fetch"]
    /\ UNCHANGED <<now, store, replies, pc, loc, lastExit, hist, call, fill>>

\* getCursorTs, fetchBatch and the test of the batch; on an empty batch in
\* backlog mode setBacklogEnabled(false)
ToneFetch ==
    /\ tone.pc = "fetch"
    /\ LET batch == fetchBatch(tone, tone.cursor_ts, tone.boundaryTs,
                               MAX_TO_SCORE_PER_RUN)
       IN tone' = IF batch = <<>>
                  THEN ToneExit([tone EXCEPT
                          !.backlog_mode = IF tone.backlogEnabled THEN "false" ELSE @])
                  ELSE [tone EXCEPT !.batch = batch, !.idx = 1,
                                    !.lastProcessedTs = tone.cursor_ts,
                                    !.pc = "score"]
    /\ UNCHANGED <<now, store, replies, pc, loc, lastExit, hist, call, fill>>

\* one iteration of the for loop up to the upsert of the score: the
\* deadline, the budget test, the scoring and its outcome
ToneScore ==
    /\ tone.pc = "score"
    /\ IF tone.idx > Len(tone.batch)
       THEN tone' = [tone EXCEPT !.pc = "cursor"]
       ELSE \/ tone' = [tone EXCEPT !.pc = "cursor"]
            \/ LET r == tone.batch[tone.idx]
                   st == getSpendState(tone)
               IN IF wouldExceedBudget(st.spent, estimateCostUsd(r))
                  THEN tone' = [st EXCEPT !.pc = "cursor"]
                  ELSE \/ tone' = [st EXCEPT !.scored = @ \cup {r},
                                              !.pc = "add_spend"]
                       \/ tone' = [st EXCEPT !.errors = @ \cup {r},
                                              !.lastProcessedTs = replyCreatedAt(r),
                                              !.idx = @ + 1]
    /\ UNCHANGED <<now, store, replies, pc, loc, lastExit, hist, call, fill>>

\* addSpend(estCost); lastProcessedTs = r.reply_created_at.  A failed
\* write of the spend is caught like a failed scoring.
ToneAddSpend ==
    /\ tone.pc = "add_spend"
    /\ LET r == tone.batch[tone.idx]
           st == getSpendState(tone)
       IN \/ tone' = [st EXCEPT !.spent = @ + estimateCostUsd(r),
                                !.lastProcessedTs = replyCreatedAt(r),
                                !.idx = @ + 1,
                                !.pc = "score"]
          \/ tone' = [st EXCEPT !.errors = @ \cup {r},
                                !.lastProcessedTs = replyCreatedAt(r),
                                !.idx = @ + 1,
                                !.pc = "score"]
    /\ UNCHANGED <<now, store, replies, pc, loc, lastExit, hist, call, fill>>

\* if (lastProcessedTs) setCursorTs(lastProcessedTs)
ToneCursor ==
    /\ tone.pc = "cursor"
    /\ tone' = [tone EXCEPT
                  !.cursor_ts = IF tone.lastProcessedTs # 0
                                THEN tone.lastProcessedTs ELSE @,
                  !.pc = "backlog_off"]
    /\ UNCHANGED <<now, store, replies, pc, loc, lastExit, hist, call, fill>>

\* the backlog auto-switch at the end of a run, and the getSpendState of
\* the final log line
ToneBacklogOff ==
    /\ tone.pc = "backlog_off"
    /\ tone' = ToneExit([getSpendState(tone) EXCEPT
                  !.backlog_mode =
                      IF /\ tone.backlogEnabled
                         /\ tone.boundaryTs # 0
                         /\ tone.lastProcessedTs # 0
                         /\ tone.lastProcessedTs >= tone.boundaryTs
                      THEN "false" ELSE @])
    /\ UNCHANGED <<now, store, replies, pc, loc, lastExit, hist, call, fill>>

ToneNext ==
    \/ ToneTick \/ ToneKill \/ ToneStart
    \/ ToneSpendMonth \/ ToneSpendReset \/ ToneBudget
    \/ ToneBoundary \/ ToneFetch \/ ToneScore \/ ToneAddSpend
    \/ ToneCursor \/ ToneBacklogOff

ToneSpec == Init /\ [][ToneNext]_vars

\* ------------------------------------------------- the user-field backfill
\* scripts/backfill-intercom-user-fields.js (the version gated on user_name)
\* and the per-row variant of the same utility.
BATCH_ROWS == 2
MAX_CONVERSATIONS == 2
MAX_LOOPS == 3
NumFillRows == 4
NumFillConvs == 2

\* null / undefined
null == "<null>"

UserFields == {"user_id", "user_name", "user_email", "user_external_id"}

\* The rows the sync has written: row i belongs to conversation
\* i % (NumFillConvs + 1), 0 being a row without conversation_id; a row has
\* no user field, a name only, or an e-mail only.
fillConversationOf(i) == i % (NumFillConvs + 1)

RowKinds ==
    { [user_id |-> null, user_name |-> null, user_email |-> null,
       user_external_id |-> null],
      [user_id |-> null, user_name |-> "old name", user_email |-> null,
       user_external_id |-> null],
      [user_id |-> null, user_name |-> null, user_email |-> "old email",
       user_external_id |-> null] }

\* The conversation as the upstream returns it: an odd conversation was
\* started by a user with every field and has a contact; an even one was
\* started by an admin, its first user-authored part has an author without
\* name, and it has no contact.
NoAuthor == [type |-> null, id |-> null, name |-> null, email |-> null]

upstreamConversation(c) ==
    IF c % 2 = 1
    THEN [ contact |-> [id |-> "contact", external_id |-> "external"],
           source |-> [type |-> "user", id |-> "source id",
                       name |-> "source name", email |-> "source email"],
           parts |-> << >> ]
    ELSE [ contact |-> [id |-> null, external_id |-> null],
           source |-> [type |-> "admin", id |-> "admin id",
                       name |-> "admin name", email |-> "admin email"],
           parts |-> << [type |-> "bot", id |-> "bot id", name |-> "bot",
                         email |-> null],
                        [type |-> "User", id |-> "part id", name |-> null,
                         email |-> "part email"] >> ]

\* a ?? b
coalesce(a, b) == IF a # null THEN a ELSE b

\* extractUserFromConversation
extractUserFromConversation(conversation) ==
    LET c0 == conversation.contact
        sa == conversation.source
        sourceUser == IF sa.type = "user" THEN sa ELSE NoAuthor
        userParts == SelectSeq(conversation.parts,
                         LAMBDA p : p.type # null /\ toLowerCase(p.type) = "user")
        firstUserPartAuthor == IF userParts = <<>> THEN NoAuthor ELSE userParts[1]
        best == IF sourceUser # NoAuthor THEN sourceUser ELSE firstUserPartAuthor
    IN [ user_id |-> coalesce(best.id, c0.id),
         user_name |-> best.name,
         user_email |-> best.email,
         user_external_id |-> c0.external_id ]

\* (mutant) .or("user_email.is.null,user_name.is.null,user_id.is.null")
missingAnyField(row) ==
    row.user_email = null \/ row.user_name = null \/ row.user_id = null

\* .is("user_name", null)
missingUserName(row) == row.user_name = null

\* the rows the loop's query matches: user_name null and conversation_id
\* not null
Needing(rows) ==
    {i \in DOMAIN rows : missingUserName(rows[i]) /\ fillConversationOf(i) # 0}

\* for (const k of Object.keys(patch)) if (patch[k] == null) delete patch[k]
patchKeys(user) == {k \in UserFields : user[k] # null}

applyPatch(row, user, keys) ==
    [k \in UserFields |-> IF k \in keys THEN user[k] ELSE row[k]]

\* updateRepliesForConversation
updateRepliesForConversation(rows, conversationId, user) ==
    [i \in DOMAIN rows |->
        IF /\ patchKeys(user) # {}
           /\ fillConversationOf(i) = conversationId
           /\ missingUserName(rows[i])
        THEN applyPatch(rows[i], user, patchKeys(user))
        ELSE rows[i]]

\* the per-row variant: only the fields that are null in the row and not
\* null upstream
rowPatchKeys(row, user) == {k \in UserFields : row[k] = null /\ user[k] # null}

\* Unique conversations only, up to MAX_CONVERSATIONS
RECURSIVE uniqueConversations(_, _)
uniqueConversations(selected, unique) ==
    IF selected = <<>> \/ Len(unique) >= MAX_CONVERSATIONS THEN unique
    ELSE LET id == fillConversationOf(Head(selected))
         IN uniqueConversations(Tail(selected),
                IF \E j \in 1..Len(unique) : unique[j] = id
                THEN unique ELSE Append(unique, id))

FillExit(st, how) ==
    [st EXCEPT !.pc = "idle", !.loops = 0, !.unique = <<>>, !.idx = 0,
               !.before = 0, !.exit = how]

FillInit ==
    /\ call = NoCall
    /\ tone = NoTone
    /\ fill \in {[NoFill EXCEPT !.rows = t] : t \in [1..NumFillRows -> RowKinds]}
    /\ now = T0
    /\ store = EmptyStore
    /\ replies = EmptyBag
    /\ pc = "idle"
    /\ loc = NoLocals
    /\ lastExit = "none"
    /\ hist = NoHistory

FillKill ==
    /\ fill.pc # "idle"
    /\ fill' = FillExit(fill, "killed")
    /\ UNCHANGED <<now, store, replies, pc, loc, lastExit, hist, call, tone>>

FillStart ==
    /\ fill.pc = "idle"
    /\ fill' = [fill EXCEPT !.pc = "select", !.exit = ""]
    /\ UNCHANGED <<now, store, replies, pc, loc, lastExit, hist, call, tone>>

\* while (loops < MAX_LOOPS): the query of the rows that still need the
\* fields (any BATCH_ROWS of them: the query has no order), the exit on an
\* empty result, the unique conversations
FillSelect ==
    /\ fill.pc = "select"
    /\ IF fill.loops >= MAX_LOOPS
       THEN fill' = FillExit(fill, "max loops")
       ELSE \/ fill' = FillExit(fill, "error")
            \/ LET needing == Needing(fill.rows)
                   size == IF Cardinality(needing) < BATCH_ROWS
                           THEN Cardinality(needing) ELSE BATCH_ROWS
               IN \E selected \in {S \in SUBSET needing : Cardinality(S) = size} :
                     fill' = IF selected = {}
                             THEN FillExit(fill, "no more rows")
                             ELSE [fill EXCEPT
                                     !.loops = @ + 1,
                                     !.before = Cardinality(needing),
                                     !.unique = uniqueConversations(
                                                    Ascending(selected), <<>>),
                                     !.idx = 1,
                                     !.pc = "fetch"]
    /\ UNCHANGED <<now, store, replies, pc, loc, lastExit, hist, call, tone>>

\* fetchConversation: the conversation, null (404, or 429 too many times),
\* or an error main catches; without a conversation main goes on to the next
FillFetch ==
    /\ fill.pc = "fetch"
    /\ IF fill.idx > Len(fill.unique)
       THEN fill' = [fill EXCEPT !.pc = "select"]
       ELSE \E outcome \in {"found", "null", "error"} :
               fill' = IF outcome = "found"
                       THEN [fill EXCEPT !.pc = "update"]
                       ELSE [fill EXCEPT !.idx = @ + 1]
    /\ UNCHANGED <<now, store, replies, pc, loc, lastExit, hist, call, tone>>

\* extractUserFromConversation and updateRepliesForConversation; an error
\* of the update is logged
FillUpdate ==
    /\ fill.pc = "update"
    /\ LET conversationId == fill.unique[fill.idx]
           user == extractUserFromConversation(upstreamConversation(conversationId))
       IN \/ fill' = [fill EXCEPT
                        !.rows = updateRepliesForConversation(@, conversationId, user),
                        !.idx = @ + 1, !.pc = "fetch"]
          \/ fill' = [fill EXCEPT !.idx = @ + 1, !.pc = "fetch"]
    /\ UNCHANGED <<now, store, replies, pc, loc, lastExit, hist, call, tone>>

\* the per-row variant, for one row of its query (user_name null): the
\* conversation is fetched and the row patched by part_id
FillRow ==
    /\ fill.pc = "idle"
    /\ \E i \in DOMAIN fill.rows :
          /\ missingUserName(fill.rows[i])
          /\ fillConversationOf(i) # 0
          /\ LET user == extractUserFromConversation(
                             upstreamConversation(fillConversationOf(i)))
                 keys == rowPatchKeys(fill.rows[i], user)
             IN /\ keys # {}
                /\ fill' = [fill EXCEPT
                              !.rows[i] = applyPatch(@, user, keys)]
    /\ UNCHANGED <<now, store, replies, pc, loc, lastExit, hist, call, tone>>

FillNext ==
    \/ FillKill \/ FillStart \/ FillSelect \/ FillFetch \/ FillUpdate
    \/ FillRow

FillSpec == FillInit /\ [][FillNext]_vars

\* ================================================================ properties
BfPagePcs == {"bf_conv", "bf_upsert", "bf_cursor"}
LivePagePcs == {"live_conv", "live_upsert", "live_cursor"}

BatchStored == \A k \in 1..Len(loc.rows) : Stored(replies, loc.rows[k])

\* The part_ids the extraction yields for conversation c.
ExpectedPartIds(c) == PartIds(conversationRows(c, Detail(c), 0))

StoredPartIds == {r.part_id : r \in RowsOf(replies)}

\* C1: every conversation that precedes the persisted backfill cursor in the
\* window was processed, or skipped because its detail fetch failed, in a page
\* that was checkpointed.  (Violated: the per-run cap breaks out of a page and
\* the page's next-cursor is persisted all the same.)
C1_CursorNeverPastUnprocessed ==
    LET window == BfWindowList(store)
    IN \A k \in 1..store.bf_starting_after :
          k <= Len(window) => window[k] \in hist.handled

\* C2: with no upstream miss and no sink failure so far, once bf_done is true
\* the table holds a row for every reply of every conversation of the
\* backfill window.  (Violated, by the conversations C1's cap break skips.)
C2_BackfillLosesNothing ==
    (~hist.faults /\ bfIsDone(store)) =>
        \A k \in 1..Len(BfWindowList(store)) :
            ExpectedPartIds(BfWindowList(store)[k]) \subseteq StoredPartIds

\* C3: the table never holds two rows with one part_id: every part_id has
\* exactly one row, present once.
C3_OneRowPerPartId ==
    \A r \in RowsOf(replies) :
        /\ CopiesIn(r, replies) = 1
        /\ \A q \in RowsOf(replies) : q.part_id = r.part_id => q = r

\* C3 witness: a live pass has upserted again, at a later instant, the rows of
\* a conversation the backfill had already stored.
C3_Witness ==
    /\ pc = "live_cursor"
    /\ ~hist.faults
    /\ \E k \in 1..Len(loc.rows) :
          /\ loc.rows[k].conversation_id \in hist.handled
          /\ loc.rows[k].pulled_at > store.bf_end_iso
          /\ Stored(replies, loc.rows[k])

\* C4: a failed upsert ends the invocation with an error and writes no key:
\* the store is the one the page was requested under, and the next search of
\* that phase asks for the same page (the same cursor) again.
C4_SinkFailureKeepsStore ==
    [][ /\ hist'.sinkError =>
             /\ pc' = "idle"
             /\ lastExit' = "error"
             /\ store' = hist'.owed.store
             /\ store' = store
        /\ (hist.owed.phase = "bf" /\ pc = "bf_loop" /\ pc' # "idle") =>
             (pc' = "auto_switch" \/ hist'.page.cursor = hist.owed.cursor)
        /\ (hist.owed.phase = "live" /\ pc = "live_loop" /\ pc' # "idle") =>
             (pc' = "done" \/ hist'.page.cursor = hist.owed.cursor)
      ]_vars

\* C4 witness: the upsert of a page after the first one has failed.
C4_Witness ==
    /\ hist.sinkError
    /\ pc = "idle"
    /\ hist.owed.cursor > 0

\* C5: a page's next-cursor is written only when the page's batch is in the
\* table, and while a page is in flight the persisted cursor is the one the
\* page was requested with, so a kill makes the next run redo that page only.
C5_CursorAfterUpsert ==
    /\ pc \in {"bf_cursor", "live_cursor"} => BatchStored
    /\ pc \in BfPagePcs => store.bf_starting_after = loc.startingAfter
    /\ pc \in LivePagePcs => store.live_starting_after = loc.startingAfter

\* C5 witness: a non-empty batch is stored and the cursor of a further page is
\* about to be written.
C5_Witness ==
    /\ pc = "bf_cursor"
    /\ loc.rows # <<>>
    /\ loc.next > 0

BfInitPcs == {"bf_init_end", "bf_init_cursor", "bf_init_done"}
BfWorkPcs ==
    BfInitPcs \cup BfPagePcs \cup
    {"bf_loop", "bf_empty_done", "bf_empty_cursor", "bf_final_done", "bf_final_cursor"}

\* C6: once bf_done is true no step writes another value to it, and the
\* initialisation of the backfill window does not run again.
C6_DoneNeverReverts ==
    [][ bfIsDone(store) => (store'.bf_done = "true" /\ pc' \notin BfInitPcs) ]_vars

\* C6 witness: an invocation that started with bf_done true has run to its
\* end (through the initialisation check) and the flag is still true.
C6_Witness ==
    /\ hist.doneAtStart
    /\ pc = "done"
    /\ store.bf_done = "true"

\* C7: bf_done is true only if the upstream has answered a backfill search
\* with an exhausted window (an empty page or a page without next cursor).
\* (Violated: a search that missed is read as an empty page.)
C7_DoneOnlyWhenExhausted == bfIsDone(store) => hist.exhausted

\* C8 as claimed: the lower bound of the first live search is the end of the
\* backfill window.  (Violated: the lookback is subtracted.)
C8_FirstLiveStartIsBackfillEnd ==
    hist.firstLiveStart # -1 => hist.firstLiveStart = toUnix(store.bf_end_iso)

\* C8 amended: a backfill that finds its window exhausted persists bf_done =
\* true; the auto-switch seeds live_last_run_iso with bf_end_iso, so the lower
\* bound of the first live search is the end of the backfill window minus the
\* lookback of 30 minutes.
C8_LiveSeededWithBackfillEnd ==
    /\ pc \in {"bf_empty_cursor", "bf_final_cursor"} => store.bf_done = "true"
    /\ store.live_last_run_iso # 0 => bfIsDone(store)
    /\ hist.liveSeed # 0 => hist.liveSeed = store.bf_end_iso
    /\ hist.firstLiveStart # -1 =>
          /\ hist.liveSeed # 0
          /\ hist.firstLiveStart =
                toUnix(store.bf_end_iso) - LIVE_LOOKBACK_MINUTES * 60

\* C8 witness: the first live search has been prepared at an instant later
\* than the end of the backfill window.
C8_Witness ==
    /\ hist.firstLiveStart # -1
    /\ pc = "live_loop"
    /\ now > store.bf_end_iso

C10_StartAtOrAfterPreviousEnd ==
    (pc \in LivePagePcs /\ hist.lastRunAtStart # 0) =>
        loc.startUnix >= toUnix(hist.lastRunAtStart)

\* C10 amended: the lower bound of a run's live searches is the
\* live_last_run_iso the previous run left minus the lookback of 30 minutes
\* (in whole seconds), and live_last_run_iso itself never decreases.
C10_StartIsPreviousEndMinusLookback ==
    [][ /\ store'.live_last_run_iso >= store.live_last_run_iso
        /\ (pc' \in LivePagePcs /\ hist'.lastRunAtStart # 0) =>
              /\ loc'.startUnix =
                    toUnix(hist'.lastRunAtStart - LIVE_LOOKBACK_MINUTES * MsPerMinute)
              /\ loc'.startUnix >=
                    toUnix(hist'.lastRunAtStart) - LIVE_LOOKBACK_MINUTES * 60
      ]_vars

\* C10 witness: a live pass searches after an earlier live pass had advanced
\* live_last_run_iso beyond its seed.
C10_Witness ==
    /\ pc = "live_conv"
    /\ hist.lastRunAtStart > store.bf_end_iso

LiveWritePcs ==
    {"auto_cursor", "live_empty_last", "live_empty_cursor", "live_cursor",
     "live_final_last", "live_final_cursor"}
LiveWorkPcs == LiveWritePcs \cup LivePagePcs \cup {"live_loop"}

\* C11: while bf_done is not true no live key has a value, and the invocation
\* is at no step of the live loop (no live search, no detail call of the live
\* pass, no write of a live key); the live loop runs only with
\* live_last_run_iso set.
C11_NoLiveBeforeBackfillDone ==
    /\ ~bfIsDone(store) => (LiveKeys(store) = <<0, 0>> /\ pc \notin LiveWorkPcs)
    /\ pc \in LiveWorkPcs \ {"auto_cursor"} => store.live_last_run_iso # 0

\* C11 witness: an invocation that stopped its backfill at a cap, before the
\* end of the window, has gone through the auto-switch and the live pass.
C11_Witness ==
    /\ pc = "done"
    /\ ~bfIsDone(store)
    /\ store.bf_starting_after > 0

\* C12: after the auto-switch has returned with bf_done true,
\* live_last_run_iso is set; the auto-switch writes live_last_run_iso only
\* when it was unset and bf_done is true, and it does so at most once.
C12_LiveInitialisedOnce ==
    [][ /\ (pc' = "live_start" /\ bfIsDone(store')) => store'.live_last_run_iso # 0
        /\ (pc \in {"auto_switch", "auto_cursor"}
              /\ store'.live_last_run_iso # store.live_last_run_iso) =>
                (store.live_last_run_iso = 0 /\ bfIsDone(store) /\ hist.liveSeed = 0)
      ]_vars

\* C12 witness: an invocation that found bf_done true and live_last_run_iso
\* unset (the run that completed the backfill never reached the seeding) has
\* left the auto-switch with live_last_run_iso set.
C12_Witness ==
    /\ hist.doneAtStart
    /\ hist.lastRunAtStart = 0
    /\ pc = "live_start"
    /\ store.live_last_run_iso # 0

\* C13: in every persisted state in which the window of a phase has just
\* advanced (live_last_run_iso seeded, or moved forward so that the next live
\* window starts later than the one being searched, or the backfill window
\* initialised), the cursor of that phase is empty, so that a kill there
\* leaves no cursor of the older window.  (Violated: on an empty live page
\* live_last_run_iso is written before the cursor is cleared, and the page
\* may have been requested with a cursor.)
C13_CursorEmptyWhenWindowAdvances ==
    /\ pc = "auto_cursor" => store.live_starting_after = 0
    /\ (pc \in {"live_empty_cursor", "live_final_cursor"}
          /\ toUnix(liveWindowStart(store.live_last_run_iso)) > loc.startUnix) =>
             store.live_starting_after = 0
    /\ pc \in {"bf_init_cursor", "bf_init_done"} => store.bf_starting_after = 0

ConvPcs == {"bf_conv", "live_conv"}

\* the step taken is a detail fetch that returned null
DetailMissStep == pc \in ConvPcs /\ loc.convos[loc.idx] \in loc'.missed

AllRetryable(script) ==
    \A k \in 1..Len(script) : script[k].code = 429 \/ script[k].code \in 500..599

\* a call answered 429 or 5xx on every attempt returns null after the sixth
\* request; it does not throw
RetryExhaustionIsMiss ==
    \A script \in Scripts :
        AllRetryable(script) =>
            /\ ~intercomRequest(script).ok
            /\ ~intercomRequest(script).threw
            /\ intercomRequest(script).requests = maxAttempts

\* C14: a call that gets a retryable status on every attempt returns a miss
\* after the attempt ceiling and does not throw; a detail miss leaves the
\* invocation running in its page, at the page's next conversation when there
\* is one and at the page's upsert or checkpoint otherwise; no invocation
\* exits with an error unless the sink failed.
C14_MissDoesNotEndTheRun ==
    [][ /\ RetryExhaustionIsMiss
        /\ DetailMissStep =>
              /\ lastExit' = lastExit
              /\ IF loc.idx < Len(loc.convos)
                 THEN pc' = pc /\ loc'.idx = loc.idx + 1
                 ELSE pc' = (IF pc = "bf_conv" THEN bfAfterPage(loc.rows)
                                               ELSE liveAfterPage(loc.rows))
        /\ lastExit' = "error" => hist'.sinkError
      ]_vars

\* C14 witness: the detail fetch of a page's first conversation missed, its
\* second conversation was processed and the page's batch is about to be
\* upserted.
C14_Witness ==
    /\ pc = "bf_upsert"
    /\ Len(loc.convos) = 2
    /\ loc.missed = {loc.convos[1]}
    /\ loc.seen = {loc.convos[1], loc.convos[2]}

\* C15: a call returns after a 2xx response with its parsed body (null when
\* the body does not parse), retries after 429 and after 500 to 599 only,
\* returns null after any other status without a further request, and never
\* ends in an exception.  (Violated by the poller's intercomRequest, which
\* parses a 2xx body outside try / catch.)
C15_ClassifiedByStatusNeverThrows ==
    (call.returned /\ call.fn \in {"intercomRequest", "pollerIntercomRequest"}) =>
        LET n == call.ret.requests
            last == responseAt(call.arg, n)
        IN /\ n \in 1..6
           /\ \A k \in 1..(n - 1) :
                 LET code == responseAt(call.arg, k).code
                 IN code = 429 \/ code \in 500..599
           /\ last.code \in 200..299 => (call.ret.ok <=> last.parses)
           /\ last.code \notin 200..299 => ~call.ret.ok
           /\ (last.code = 429 \/ last.code \in 500..599) => n = 6
           /\ ~call.ret.threw

\* C16: one call sends at most 6 requests, and the delay slept after the n-th
\* retryable response is min(30000, 500 * 2^n) ms: 1000, 2000, 4000, 8000,
\* 16000, 30000, never decreasing and never above 30000.
C16_BoundedAttemptsAndBackoff ==
    (call.returned /\ call.fn = "intercomRequest") =>
        LET slept == call.ret.slept
            delays == <<1000, 2000, 4000, 8000, 16000, 30000>>
        IN /\ call.ret.requests <= 6
           /\ Len(slept) <= 6
           /\ Len(slept) \in {call.ret.requests - 1, call.ret.requests}
           /\ \A n \in 1..Len(slept) :
                 /\ slept[n] = delays[n]
                 /\ slept[n] <= 30000
                 /\ n > 1 => slept[n] >= slept[n - 1]
                 /\ (n > 1 /\ slept[n] < 30000) => slept[n] = 2 * slept[n - 1]

\* C16 witness: a call was answered with a retryable status six times.
C16_Witness ==
    /\ call.returned
    /\ call.fn = "intercomRequest"
    /\ Len(call.ret.slept) = 6

\* C17: a conversation whose detail fetch fails adds no row and is not
\* counted as processed; the loop goes on with the next conversation of the
\* page; the batch holds the rows of the page's other visited conversations
\* and none of the missed ones, it is upserted when it is not empty, and the
\* page's cursor is written.
C17_DetailMissSkipsOneConversation ==
    [][ /\ DetailMissStep =>
              /\ loc'.rows = loc.rows
              /\ loc'.processed = loc.processed
              /\ loc'.totalRows = loc.totalRows
              /\ loc'.idx = loc.idx + 1
        /\ pc \in BfPagePcs \cup LivePagePcs =>
              /\ \A k \in 1..Len(loc.rows) : loc.rows[k].conversation_id \notin loc.missed
              /\ \A c \in loc.seen \ loc.missed : ExpectedPartIds(c) \subseteq PartIds(loc.rows)
        /\ (pc \in {"bf_upsert", "live_upsert"} /\ pc' \in {"bf_cursor", "live_cursor"}) =>
              \A k \in 1..Len(loc.rows) : Stored(replies', loc.rows[k])
        /\ (pc = "bf_cursor" /\ pc' # "idle") => store'.bf_starting_after = loc.next
        /\ (pc = "live_cursor" /\ pc' # "idle") => store'.live_starting_after = loc.next
      ]_vars

\* C17 witness: a page with a missed conversation has had its batch upserted
\* and its cursor written.
C17_Witness ==
    /\ pc = "bf_loop"
    /\ loc.missed # {}
    /\ loc.rows # <<>>
    /\ BatchStored
    /\ loc.next > 0
    /\ store.bf_starting_after = loc.next

InvalidBackfillState(st) == (st.bf_start_iso = 0) # (st.bf_end_iso = 0)

\* C18: an invocation that finds one of bf_start_iso and bf_end_iso set and
\* the other unset ends with an error at its first step and changes no key.
\* (Violated: the window is initialised again, which writes all four backfill
\* keys.)
C18_InvalidStateFailsBeforeAnyWrite ==
    [][ (pc = "bf_init" /\ InvalidBackfillState(store) /\ lastExit' # "killed") =>
            (pc' = "idle" /\ lastExit' = "error" /\ store' = store) ]_vars

\* The raw messages of a conversation in the order the upstream lists them.
Emitted(conversation) ==
    (IF conversation.hasSource THEN <<conversation.source>> ELSE <<>>)
        \o conversation.parts

\* C19: buildOrderedMessages returns one message per emitted message, in
\* ascending order of timestamp, messages of equal timestamp in the order of
\* emission (the source before the parts, the parts in list order).
C19_StableOrderByTimestamp ==
    (call.returned /\ call.fn = "buildOrderedMessages") =>
        LET raw == Emitted(call.arg)
            out == call.ret
        IN /\ Len(out) = Len(raw)
           /\ \A k \in 1..Len(raw) :
                 Cardinality({j \in 1..Len(out) :
                     out[j].part_id = raw[k].id /\ out[j].created_at = raw[k].created_at}) = 1
           /\ \A i, j \in 1..Len(out) :
                 i < j => \/ out[i].created_at < out[j].created_at
                          \/ /\ out[i].created_at = out[j].created_at
                             /\ out[i].part_id < out[j].part_id

\* C19 witness: a part is older than the source, which has the timestamp of
\* another part: the source comes after the one and before the other.
C19_Witness ==
    /\ call.returned
    /\ call.fn = "buildOrderedMessages"
    /\ Len(call.ret) = 3
    /\ call.ret[2].part_id = 10
    /\ call.ret[1].created_at < call.ret[2].created_at
    /\ call.ret[2].created_at = call.ret[3].created_at

AdminSpellings == {"admin", "Admin", "ADMIN"}

\* C20: the normalised author type is admin exactly when the upstream author
\* type is admin in some letter case, and user otherwise (also with no author
\* or no type); every row of a conversation comes from a message whose
\* upstream author type is admin.
C20_OnlyAdminIsOperator ==
    /\ (call.returned /\ call.fn = "normalizeMessage") =>
          call.ret.author_type =
              (IF call.arg.type \in AdminSpellings THEN "admin" ELSE "user")
    /\ (call.returned /\ call.fn = "conversationRows") =>
          \A k \in 1..Len(call.ret) :
              \E j \in 1..Len(Emitted(call.arg)) :
                  /\ call.ret[k].part_id.a = Emitted(call.arg)[j].id
                  /\ Emitted(call.arg)[j].type \in AdminSpellings

\* C20 witness: of a conversation with an admin part and a part of another
\* author type, only the admin part has a row.
C20_Witness ==
    /\ call.returned
    /\ call.fn = "conversationRows"
    /\ Len(call.arg.parts) = 2
    /\ call.arg.parts[1].type = "ADMIN"
    /\ call.arg.parts[2].type = "administrator"
    /\ Len(call.ret) = 1

\* a body in which something is left when tags and white space are removed
HasText(body) ==
    \E k \in 1..Len(body) :
        body[k] \notin BrTags \cup CloseP \cup OtherTags \cup Space \cup {"&nbsp;"}

\* a message the extractor owes a record: operator role and a body with text
OwedRecord(raw) == raw.type \in AdminSpellings /\ HasText(raw.body)

\* an end-user message that can be paired with a reply
UserWithText(raw) == raw.type \notin AdminSpellings /\ HasText(raw.body)

\* C21: the rows of a conversation are, in the order of its messages, one
\* row for each message with the operator role and a non-empty trimmed body,
\* and nothing else.
C21_OneRecordPerOperatorReply ==
    (call.returned /\ call.fn = "conversationRows") =>
        LET owed == SelectSeq(Emitted(call.arg), OwedRecord)
        IN /\ Len(call.ret) = Len(owed)
           /\ \A k \in 1..Len(owed) :
                 /\ call.ret[k].part_id = [kind |-> "id", a |-> owed[k].id, b |-> 0]
                 /\ call.ret[k].agent_reply = htmlToText(owed[k].body)
                 /\ call.ret[k].agent_reply # <<>>

\* C21 witness: of four messages the first and the last are operator replies
\* with text, the second is an operator message without text, the third an
\* end-user message.
C21_Witness ==
    /\ call.returned
    /\ call.fn = "conversationRows"
    /\ Len(call.arg.parts) = 3
    /\ call.arg.source.type = "admin"
    /\ call.arg.parts[1].type = "admin"
    /\ call.arg.parts[1].body = <<"&nbsp;">>
    /\ call.arg.parts[2].type = "user"
    /\ Len(call.ret) = 2
    /\ call.ret[1].part_id.a = 10
    /\ call.ret[2].part_id.a = 13

\* the position in the conversation of the message with this id
PositionOf(conversation, id) ==
    CHOOSE i \in 1..Len(Emitted(conversation)) : Emitted(conversation)[i].id = id

\* the end-user messages with text before position i
PairableBefore(conversation, i) ==
    {j \in 1..(i - 1) : UserWithText(Emitted(conversation)[j])}

Latest(S) == CHOOSE j \in S : \A h \in S : h <= j

\* C22: the user_prev_message of a row is the body of the latest earlier
\* end-user message that has text, and null when there is none; end-user
\* messages without text are passed over.
C22_PairedWithLatestUserText ==
    (call.returned /\ call.fn = "conversationRows") =>
        \A k \in 1..Len(call.ret) :
            LET i == PositionOf(call.arg, call.ret[k].part_id.a)
                before == PairableBefore(call.arg, i)
            IN call.ret[k].user_prev_message =
                  (IF before = {} THEN <<>>
                   ELSE htmlToText(Emitted(call.arg)[Latest(before)].body))

\* C22 witness: [user "A", operator "B", user without text, operator "B"]:
\* both rows are paired with "A".
C22_Witness ==
    /\ call.returned
    /\ call.fn = "conversationRows"
    /\ Len(call.arg.parts) = 3
    /\ call.arg.source.type = "user"
    /\ call.arg.source.body = <<"A">>
    /\ call.arg.parts[2].type = "user"
    /\ call.arg.parts[2].body = <<>>
    /\ Len(call.ret) = 2
    /\ call.ret[1].user_prev_message = <<"A">>
    /\ call.ret[2].user_prev_message = <<"A">>

\* C23: an operator message with text that no end-user message with text
\* precedes has its row all the same, with user_prev_message null.
C23_UnpairedReplyIsEmitted ==
    (call.returned /\ call.fn = "conversationRows") =>
        \A i \in 1..Len(Emitted(call.arg)) :
            (OwedRecord(Emitted(call.arg)[i]) /\ PairableBefore(call.arg, i) = {}) =>
                \E k \in 1..Len(call.ret) :
                    /\ call.ret[k].part_id.a = Emitted(call.arg)[i].id
                    /\ call.ret[k].user_prev_message = <<>>

\* C23 witness: the only message of the conversation is a source written by
\* an operator.
C23_Witness ==
    /\ call.returned
    /\ call.fn = "conversationRows"
    /\ call.arg.parts = <<>>
    /\ call.arg.source.type = "admin"
    /\ Len(call.ret) = 1
    /\ call.ret[1].user_prev_message = <<>>

\* C24: a row derived again for a part_id the table already holds is equal in
\* every field to the row the table holds, so that upserting it changes
\* nothing.  (Violated: pulled_at is the instant of the derivation.)
C24_RederivedRowsIdentical ==
    pc \in {"bf_upsert", "live_upsert"} =>
        \A k \in 1..Len(loc.rows) :
            \A q \in RowsOf(replies) :
                q.part_id = loc.rows[k].part_id => q = loc.rows[k]

\* C25: the number of conversations an invocation has processed in a phase
\* never exceeds the cap of the phase, and a page is requested and a detail
\* fetched only while it is below the cap.
C25_ProcessedWithinCap ==
    /\ pc \in BfWorkPcs => loc.processed <= MAX_CONVERSATIONS_PER_RUN
    /\ pc \in {"bf_conv", "bf_empty_done"} => loc.processed < MAX_CONVERSATIONS_PER_RUN
    /\ pc \in LiveWorkPcs => loc.processed <= LIVE_MAX_CONVERSATIONS_PER_RUN
    /\ pc \in {"live_conv", "live_empty_last"} =>
          loc.processed < LIVE_MAX_CONVERSATIONS_PER_RUN

\* C25 witness: the backfill cap was reached inside a page, whose remaining
\* conversations were left unvisited.
C25_Witness ==
    /\ pc = "bf_cursor"
    /\ loc.processed = MAX_CONVERSATIONS_PER_RUN
    /\ loc.idx <= Len(loc.convos)

\* C26: the rows an invocation's backfill has sent to the sink, the batch
\* about to be sent included, never number more than
\* MAX_ROWS_INSERT_PER_RUN.  (Violated: the cap is tested before a
\* conversation's rows are added, and the whole batch is sent.)
C26_RowsWithinCap ==
    /\ pc \in BfWorkPcs => loc.totalRows <= MAX_ROWS_INSERT_PER_RUN
    /\ pc = "bf_upsert" => loc.totalRows + Len(loc.rows) <= MAX_ROWS_INSERT_PER_RUN

\* the step taken is a search of the backfill loop or of the live loop
SearchStep ==
    \/ pc = "bf_loop" /\ pc' \in {"bf_conv", "bf_empty_done"}
    \/ pc = "live_loop" /\ pc' \in {"live_conv", "live_empty_last"}

\* the phase whose loop the invocation is in
PhaseOf(p) == IF p \in BfWorkPcs THEN "bf" ELSE "live"

\* the persisted cursor of that phase
PersistedCursor(p) ==
    IF PhaseOf(p) = "bf" THEN store.bf_starting_after ELSE store.live_starting_after

\* the step taken is one iteration of the for loop over a page (neither the
\* clock advancing nor the process being terminated)
ConversationStep == pc \in ConvPcs /\ pc' # "idle" /\ now' = now

\* C27: a search is asked with the next cursor of the page before it in the
\* same loop of the run, or with the persisted cursor when it is the loop's
\* first search; the cursors asked in one loop strictly increase, so no page
\* is asked twice; the for loop visits the conversations of a page at
\* positions 1, 2, ... of the answer, one position per iteration.
C27_PagesAndConversationsInOrder ==
    [][ /\ SearchStep =>
            /\ hist'.page.cursor = loc.startingAfter
            /\ IF hist.page.phase = PhaseOf(pc)
               THEN /\ hist'.page.cursor = loc.next
                    /\ hist'.page.cursor > hist.page.cursor
               ELSE hist'.page.cursor = PersistedCursor(pc)
        /\ ConversationStep =>
            /\ loc.seen = {loc.convos[k] : k \in 1..(loc.idx - 1)}
            /\ loc'.seen = loc.seen \cup {loc.convos[loc.idx]}
            /\ loc'.idx = loc.idx + 1
            /\ loc'.convos = loc.convos
      ]_vars

\* the second page of a backfill run is being worked through, past its
\* first conversation, and the same for a live pass
C27_Witness ==
    /\ pc = "live_conv"
    /\ hist.page.phase = "live"
    /\ hist.page.cursor > 0
    /\ loc.processed > 0
    /\ loc.idx > 1
    /\ \E c \in hist.handled : c > SEARCH_PER_PAGE

\* both ends of the backfill window are persisted
WindowPersisted(st) == st.bf_start_iso # 0 /\ st.bf_end_iso # 0

\* midnight of a Sunday (day 0 of the epoch is a Thursday)
IsSundayStart(t) == t % MsPerDay = 0 /\ ((t \div MsPerDay) + 4) % 7 = 0

\* C29: the step that completes the persisted window leaves it as [the
\* Sunday midnight at most a week before the instant of the initialisation,
\* that instant], with an empty cursor and the backfill not done; from then
\* on no step of any run changes bf_start_iso or bf_end_iso, and start <= end.
C29_WindowComputedOnce ==
    [][ /\ WindowPersisted(store) =>
            /\ store'.bf_start_iso = store.bf_start_iso
            /\ store'.bf_end_iso = store.bf_end_iso
        /\ (~WindowPersisted(store) /\ WindowPersisted(store')) =>
            /\ store'.bf_end_iso = now
            /\ IsSundayStart(store'.bf_start_iso)
            /\ store'.bf_start_iso <= store'.bf_end_iso
            /\ store'.bf_end_iso - store'.bf_start_iso < 7 * MsPerDay
            /\ store'.bf_starting_after = 0
            /\ ~bfIsDone(store')
        /\ pc = "bf_init_done" /\ pc' = "bf_read" =>
            /\ store'.bf_starting_after = 0
            /\ store'.bf_done = "false"
      ]_vars

\* a later run, started after the clock has moved on, has gone through the
\* initialisation and found the window of the first run
C29_Witness ==
    /\ pc = "bf_read"
    /\ WindowPersisted(store)
    /\ store.bf_done = "false"
    /\ now > store.bf_end_iso
    /\ store.bf_starting_after > 0

\* C30: when the poller starts with no live state, the window of its
\* searches is [now - lookback, now]: the lower bound is one lookback
\* interval before the clock.
C30_FirstWindowIsOneLookback ==
    (call.fn = "pollerWindow" /\ call.returned /\ call.arg.lastRunIso = 0) =>
        /\ call.ret.startUnix = toUnix(call.arg.now - LOOKBACK_MINUTES * MsPerMinute)
        /\ call.ret.endUnix = toUnix(call.arg.now)

BfLoopPcs == BfPagePcs \cup {"bf_loop"}
LiveLoopPcs == LivePagePcs \cup {"live_loop"}

\* C28: an invocation that is left running comes to its end, and so does
\* each of its two loops: from any step of the backfill loop the invocation
\* gets out of the backfill loop, from any step of the live loop out of the
\* live loop, whatever the upstream answers (every detail fetch of every
\* page may fail).
C28_EveryInvocationTerminates ==
    /\ (pc # "idle") ~> (pc = "idle")
    /\ (pc \in BfLoopPcs) ~> (pc \notin BfLoopPcs)
    /\ (pc \in LiveLoopPcs) ~> (pc \notin LiveLoopPcs)

\* an invocation has returned normally after a live pass over a full page of
\* which every conversation was skipped, all backfill pages having been
\* skipped in the same way
C28_Witness ==
    /\ pc = "done"
    /\ hist.page.phase = "live"
    /\ replies = EmptyBag
    /\ hist.faults
    /\ Cardinality(hist.handled) > SEARCH_PER_PAGE
    /\ bfIsDone(store)

\* the step taken writes another value to live_last_run_iso from the live loop
LiveAdvanceStep ==
    /\ pc \in {"live_empty_last", "live_final_last"}
    /\ store'.live_last_run_iso # store.live_last_run_iso

\* the step taken clears the live cursor on the empty-page path
LiveEmptyClearStep == pc = "live_empty_cursor" /\ pc' = "done"

\* the step taken leaves the live loop by its while guard (the cap)
LiveCapStep == pc = "live_loop" /\ pc' = "done"

\* C31: live_last_run_iso is advanced, and the cursor cleared on the
\* empty-page path, only when the last search was answered by the upstream
\* and left nothing more to ask (an empty page or no next cursor); a run
\* that leaves the loop by the conversation cap has live_last_run_iso as it
\* found it (or as the auto-switch of the same invocation seeded it).
\* (Violated: a search that missed is read as an empty page.)
C31_LastRunAdvancesOnlyWhenCovered ==
    [][ /\ LiveAdvanceStep => (loc.answered /\ loc.next = 0)
        /\ LiveEmptyClearStep => loc.answered
        /\ LiveCapStep =>
              store.live_last_run_iso =
                 IF hist.lastRunAtStart # 0 THEN hist.lastRunAtStart ELSE hist.liveSeed
      ]_vars

\* the step taken fixes the window of a live pass
LiveWindowStep == pc = "live_start" /\ pc' = "live_loop"

\* C32: the value written to live_last_run_iso is the end the run fixed
\* before its first search, the one its searches were asked with, and not
\* the clock at the write; the window a live pass fixes starts at or before
\* the live_last_run_iso it finds and ends at or after it.  So each window
\* reaches back over the end consumed before it, and the windows from the
\* first live window's start to the latest consumed end leave no gap.
C32_LiveWindowsLeaveNoGap ==
    [][ /\ LiveAdvanceStep =>
            /\ store'.live_last_run_iso = loc.endMs
            /\ toUnix(store'.live_last_run_iso) = loc.endUnix
            /\ loc.startUnix <= toUnix(store.live_last_run_iso)
        /\ LiveWindowStep =>
            /\ loc'.startUnix <= toUnix(store.live_last_run_iso)
            /\ toUnix(store.live_last_run_iso) <= loc'.endUnix
            /\ hist'.firstLiveStart <= loc'.startUnix
      ]_vars

\* a live pass has fixed its window after an earlier pass consumed a later
\* end than the seed, and the new window starts before that end
C32_Witness ==
    /\ pc = "live_loop"
    /\ loc.processed = 0
    /\ hist.lastRunAtStart > store.bf_end_iso
    /\ loc.startUnix < toUnix(hist.lastRunAtStart)
    /\ loc.endMs >= hist.lastRunAtStart

\* no two positions of a sequence hold the same value
Injective(keys) ==
    \A i, j \in 1..Len(keys) : i # j => keys[i] # keys[j]

\* C33: the rows derived from the operator messages of a conversation, each
\* message with its own upstream id or with none, have pairwise different
\* part_ids, in the sync entry point and in the poller.  (Violated: two
\* messages without id and with one timestamp get one fallback key, and the
\* poller gives every message without id the key "null".)
C33_PartIdInjective ==
    (call.fn = "partIdOf" /\ call.returned) =>
        /\ Len(call.ret.sync) = Len(call.arg.parts) + 1
        /\ Injective(call.ret.sync)
        /\ Injective(call.ret.poller)

\* the replies of the table that could be scored and are not
Unscored(st) ==
    {k \in ReplyIds : replyCreatedAt(k) <= st.clock /\ isScoreable(k) /\ k \notin st.scored}

\* the step taken switches backlog mode off
BacklogOffStep == isBacklogEnabled(tone) /\ ~isBacklogEnabled(tone')

\* C34: backlog mode is switched off only when no unscored reply that could
\* be scored and was created at or before the boundary is left, or when the
\* cursor has reached the boundary; once off it is never on again.
\* (Violated: an empty batch switches it off although replies at or before
\* the cursor are still unscored.)
C34_BacklogOffOnlyWhenComplete ==
    [][ /\ BacklogOffStep =>
            \/ \A k \in Unscored(tone') : replyCreatedAt(k) > tone'.boundary_ts
            \/ tone'.cursor_ts >= tone'.boundary_ts
        /\ ~isBacklogEnabled(tone) => ~isBacklogEnabled(tone')
      ]_vars

\* the replies of the batch the for loop has gone through (scored or failed)
Processed(st) == {st.batch[j] : j \in 1..(st.idx - 1)}

\* C35: the persisted cursor never decreases; when a run writes it, it is at
\* or past every reply the run went through, scored or failed; and no reply
\* that could be scored and was never attempted (neither scored nor in the
\* error table) is at or before the cursor.  (Violated: the cursor is the
\* timestamp of the last reply gone through and the next batch is asked
\* strictly after it, so a reply with that timestamp that was not in the
\* batch is never asked again.)
C35_CursorSkipsNoReply ==
    [][ /\ tone'.cursor_ts >= tone.cursor_ts
        /\ (tone.pc = "cursor" /\ tone'.pc = "backlog_off") =>
              \A k \in Processed(tone) : tone'.cursor_ts >= replyCreatedAt(k)
        /\ \A k \in Unscored(tone') \ tone'.errors :
              replyCreatedAt(k) > tone'.cursor_ts
      ]_vars

\* the step taken changes the recorded spend
SpendStep == tone'.spent # tone.spent

\* the stored month key is not the current month
MonthTurned(st) == st.spent_month # getMonthKeyUTC(st.clock)

\* C36: the recorded spend is always strictly below MONTHLY_BUDGET_USD minus
\* BUDGET_BUFFER_USD; it grows only by the estimated cost of a reply whose
\* score has been stored, and it is set back to 0 (before the cost is added,
\* in addSpend) only when the stored month key is not the current month.
C36_SpendBelowBudget ==
    [][ /\ tone'.spent < MONTHLY_BUDGET_USD - BUDGET_BUFFER_USD
        /\ \A k \in tone'.scored \ tone.scored :
              tone'.spent + estimateCostUsd(k)
                  < MONTHLY_BUDGET_USD - BUDGET_BUFFER_USD
        /\ SpendStep =>
              \/ /\ tone.pc = "add_spend"
                 /\ tone.batch[tone.idx] \in tone.scored
                 /\ tone'.spent = (IF MonthTurned(tone) THEN 0 ELSE tone.spent)
                                     + estimateCostUsd(tone.batch[tone.idx])
              \/ /\ tone'.spent = 0
                 /\ tone.pc = "spend_reset" \/ MonthTurned(tone)
      ]_vars

\* a run has added the cost of a reply to a spend that was not 0, and the
\* next reply would take the spend to the limit
C36_Witness ==
    /\ tone.pc = "score"
    /\ tone.idx <= Len(tone.batch)
    /\ tone.spent > 0
    /\ ~MonthTurned(tone)
    /\ tone.spent + estimateCostUsd(tone.batch[tone.idx])
          = MONTHLY_BUDGET_USD - BUDGET_BUFFER_USD

\* C37: every iteration of the utility's loop leaves strictly fewer rows
\* for the query than it found, and a run that is neither killed nor failed
\* by the query ends by the 'no more rows' exit.  (Violated: a conversation
\* that is missing upstream, has no user name, or whose update fails leaves
\* its rows selected; the loop goes on until MAX_LOOPS.)
C37_EachLoopReducesSelection ==
    /\ (fill.pc = "select" /\ fill.loops >= 1) =>
           Cardinality(Needing(fill.rows)) < fill.before
    /\ fill.exit # "max loops"

\* the step of the utility that writes rows
FillWriteStep == fill'.rows # fill.rows

====
